---- MODULE Spec2Model ----
(***************************************************************************)
(* Codex provider adapter of one-hub: the SSE stream handlers and the two  *)
(* aggregators (providers/codex/chat.go, responses.go), the relay's stream *)
(* writer, and the OAuth2 credential lifecycle (providers/codex/base.go,   *)
(* OAuth2Credentials.Refresh).                                             *)
(*                                                                         *)
(* Seven state machines share this module, each with its own variables;      *)
(* every action leaves the other machines' variables unchanged:            *)
(*   Spec       producer goroutine + stream handler + aggregator           *)
(*   SpecRelay  producer + responseStreamClient                            *)
(*   SpecToken  concurrent GetToken callers of one channel                 *)
(*   SpecMerge  ApplyCustomParams on request bodies (providers/base)       *)
(*   SpecHeaders  the headers of an outbound Codex request                 *)
(*   SpecRequest  the normalization of a request before it is sent         *)
(*   SpecOAuth  concurrent CodexOAuthCallback calls on OAuth sessions       *)
(***************************************************************************)
EXTENDS Integers, Sequences, FiniteSets, TLC

VARIABLES
    \* ---- stream machine (Spec) ----
    mode,          \* "chat": HandlerStream + collectStreamResponse;
                   \* "responses": HandlerResponsesStream + collectResponsesStreamResponse
    noTrim,        \* TRUE: raw lines keep their line terminator (RequestNoTrimStream)
    usage,         \* p.Usage, shared by the handler and the aggregator: <<prompt, completion, total>>
    eventBuffer,   \* CodexResponsesStreamHandler.eventBuffer: the lines written, each followed by "\n"
    eventType,     \* CodexResponsesStreamHandler.eventType
    prodPc,        \* producer goroutine: "read", "send", "sendErr", "done", "off"
    prodMsg,       \* the value the producer is blocked sending (a unit, or an error)
    nRead,         \* lines read from the upstream body so far
    dataClosed,    \* dataChan has been closed
    errClosed,     \* errChan has been closed
    aggPc,         \* aggregator: "select" (in the for/select loop), "done" (returned), "off"
    aggContent,    \* collectStreamResponse.fullContent
    aggResponse,   \* collectResponsesStreamResponse.response (NoResponse = nil)
    aggResult,     \* what the aggregator returned
    hist,          \* history of the run, written by no code: what was fed and received
    \* ---- relay machine (SpecRelay) ----
    rProdPc,       \* producer of the relayed stream: "next", "send", "sendErr", "done", "off"
    rProdMsg,      \* the chunk or error the producer is blocked sending
    rSent,         \* what the producer has handed over so far, in order (chunks, then an error)
    rPc,           \* responseStreamClient: "select", "done", "off"
    rBody,         \* what has been written to the caller's response body, in order
    rFirst,        \* firstResponseTime has been set
    rRet,          \* the error responseStreamClient returned: "none" (nil) or a code
    \* ---- credential machine (SpecToken) ----
    tPc,           \* per caller: where its provider is in Create / GetToken / Refresh
    cred,          \* per caller: p.Credentials of its provider
    handlerToken,  \* per caller: the token RequestErrorHandle was built with
    attempt,       \* per caller: Refresh's loop variable
    ret,           \* per caller: what GetToken returned
    surfaced,      \* per caller: the upstream error message handed to the caller
    cache,         \* the process-wide cache entry of the channel
    stored,        \* the channel key in durable storage (a serialized credential)
    now,           \* wall clock, in minutes
    thist,         \* the token endpoint's counter and the history of the run
    \* ---- custom-parameter machine (SpecMerge) ----
    mHeap,         \* the Go maps alive, by address: mHeap[a] is the map at address a
    mBody,         \* address of requestMap, the request body being built
    mParams,       \* address of customParams, the channel's parsed parameter set
    mSkip,         \* skipPreAddCheck of the calls made for this body
    mMerges,       \* calls of ApplyCustomParams made so far
    mCount,        \* calls made on the current body
    mOnce,         \* the body as it was after the first call on it (written by no code)
    mPre,          \* the body, the parameter set and the model's part of it as they
                   \* were before the latest call; the body and the model's part
                   \* as the remove_params block of the call left them; whether the
                   \* call got past its early returns (written by no code)
    mParams0,      \* the parameter set as it was parsed
    mCollides,     \* the body held a nested map under a key the set adds a nested map to
    \* ---- header machine (SpecHeaders) ----
    hPc,           \* getResponsesRequest: "new", "passed", "common", "required", "built",
                   \* "failed", "off"
    hEnv,          \* what the request is built from: the client's headers, the channel's
                   \* header overrides and user agent, the token, the account id
    hHeaders,      \* the headers map being built
    \* ---- request machine (SpecRequest) ----
    qPc,           \* "new" (as the caller sent it), "ready" (normalized), "off"
    qArrived,      \* the request as it arrived (written by no code)
    qReq,          \* the OpenAIResponsesRequest being prepared
    \* ---- OAuth session machine (SpecOAuth) ----
    oCache,        \* the state cache: the session ids whose CodexOAuthStateData is stored
    oStarted,      \* sessions created by StartCodexOAuth so far
    oPc,           \* each CodexOAuthCallback call: "idle", "loaded", "exchange", "done"
    oReq,          \* each call's ExchangeCodexCodeRequest
    oResp          \* each call's response: "" until it responds

strVars == <<mode, noTrim, usage, eventBuffer, eventType, prodPc, prodMsg, nRead,
             dataClosed, errClosed, aggPc, aggContent, aggResponse, aggResult, hist>>

relVars == <<rProdPc, rProdMsg, rSent, rPc, rBody, rFirst, rRet>>

tokVars == <<tPc, cred, handlerToken, attempt, ret, surfaced, cache, stored, now, thist>>

mrgVars == <<mHeap, mBody, mParams, mSkip, mMerges, mCount, mOnce, mPre, mParams0,
             mCollides>>

hdrVars == <<hPc, hEnv, hHeaders>>

reqVars == <<qPc, qArrived, qReq>>

oauVars == <<oCache, oStarted, oPc, oReq, oResp>>

vars == <<strVars, relVars, tokVars, mrgVars, hdrVars, reqVars, oauVars>>

\* ------------------------------------------------------------------------
\* Bounds
\* ------------------------------------------------------------------------
MaxLines == 3     \* upstream lines one stream delivers
MaxChunks == 4    \* chunks one relayed stream delivers
MaxNow == 1       \* minutes the clock advances
MaxIssued == 1    \* access tokens the token endpoint issues
MaxRefreshes == 2 \* access tokens the token endpoint issues in the two-refresh runs

\* ------------------------------------------------------------------------
\* SSE lines and payloads
\* ------------------------------------------------------------------------
\* types.Usage as <<prompt/input, completion/output, total>>; NoUsage is a nil *Usage.
ZeroUsage == <<0, 0, 0>>
NoUsage == <<>>
UsageA == <<3, 5, 8>>
UsageB == <<1, 2, 3>>

\* A payload is the text after the field name. kind: "json" (parses as an
\* OpenAIResponsesStreamResponses), "bad" (not JSON), "done" (the literal
\* [DONE]), "empty" (nothing), "name" (an event name).
Payload(kind, type, hasResp, us, delta) ==
    [kind |-> kind, type |-> type, hasResp |-> hasResp, usage |-> us, delta |-> delta]

DonePayload == Payload("done", "", FALSE, NoUsage, <<>>)
BadPayload == Payload("bad", "", FALSE, NoUsage, <<>>)
EmptyPayload == Payload("empty", "", FALSE, NoUsage, <<>>)
EventName(n) == Payload("name", n, FALSE, NoUsage, <<>>)
Completed(us) == Payload("json", "response.completed", TRUE, us, <<>>)
CompletedNoResponse == Payload("json", "response.completed", FALSE, NoUsage, <<>>)
Delta(text) == Payload("json", "response.output_text.delta", FALSE, NoUsage, text)
\* an event of another type whose text contains the words response.completed
OtherEvent == Payload("json", "response.reasoning.delta", FALSE, NoUsage, <<>>)

\* A raw line: a field prefix, the payload and whether the line terminator
\* is still attached. "data: " and "data:" differ by the space after the colon.
Line(pfx, body, nl) == [pfx |-> pfx, body |-> body, nl |-> nl]

DataBodies ==
    {DonePayload, BadPayload, OtherEvent, Delta(<<"A">>), Delta(<<"B">>),
     Completed(UsageA), Completed(UsageB), Completed(NoUsage), CompletedNoResponse}

Lines(nl) ==
    {Line("data: ", b, nl) : b \in DataBodies}
    \cup {Line("data:", b, nl) : b \in {DonePayload, Delta(<<"A">>), Completed(UsageA)}}
    \cup {Line("event: ", EventName("response.completed"), nl),
          Line("", EmptyPayload, nl),
          Line("data: ", EmptyPayload, nl)}

\* strings.HasPrefix(line, p) for the prefixes the code tests
HasPrefix(line, p) ==
    \/ line.pfx = p
    \/ p = "data:" /\ line.pfx = "data: "

\* strings.TrimSpace(line): drops the terminator; "data: " followed by nothing
\* loses its trailing space too.
TrimSpace(line) ==
    Line(IF line.pfx = "data: " /\ line.body = EmptyPayload THEN "data:" ELSE line.pfx,
         line.body, FALSE)

\* len(line) == 0
IsEmptyLine(line) == line.pfx = "" /\ line.body = EmptyPayload /\ ~line.nl

\* strings.TrimSpace(strings.TrimPrefix(line, p)): the payload of a line that
\* has prefix p. After "data:" the space of "data: " is trimmed as white space.
DataOf(line) == line.body

\* json.Unmarshal(payload, &OpenAIResponsesStreamResponses) succeeds
ParsesAsJSON(payload) == payload.kind = "json"

\* What the line says, whatever code reads it: an SSE data field (with or
\* without the optional space) carrying a response.completed event with usage.
IsCompletedWithUsage(line) ==
    /\ line.pfx \in {"data: ", "data:"}
    /\ line.body.kind = "json"
    /\ line.body.type = "response.completed"
    /\ line.body.hasResp
    /\ line.body.usage # NoUsage

\* An SSE data field carrying a text delta.
IsContentDelta(line) ==
    /\ line.pfx \in {"data: ", "data:"}
    /\ line.body.kind = "json"
    /\ line.body.type = "response.output_text.delta"


\* ------------------------------------------------------------------------
\* Units sent on dataChan / errChan
\* ------------------------------------------------------------------------
\* A raw line forwarded as is; an event buffer (every line followed by "\n");
\* a serialized Chat chunk; an error value.
\* (variant: the forwarded line is trimmed before it is sent)
RawUnitTrimmed(line) == [form |-> "raw", lines |-> <<TrimSpace(line)>>, content |-> <<>>]

RawUnit(line) == [form |-> "raw", lines |-> <<line>>, content |-> <<>>]
EventUnit(buf) == [form |-> "event", lines |-> buf, content |-> <<>>]
ChunkUnit(text) == [form |-> "chunk", lines |-> <<>>, content |-> text]
ErrUnit(msg) == [form |-> "err", lines |-> <<>>, content |-> <<msg>>]
NoUnit == [form |-> "none", lines |-> <<>>, content |-> <<>>]

NoEventType == [name |-> "", nl |-> FALSE]

\* strings.HasSuffix(h.eventBuffer.String(), "\n\n"): the last line written
\* brought its own terminator, or was empty and follows another line.
HasSuffixBlankLine(buf) ==
    /\ Len(buf) > 0
    /\ \/ buf[Len(buf)].nl
       \/ IsEmptyLine(buf[Len(buf)]) /\ Len(buf) > 1

\* ------------------------------------------------------------------------
\* providers/codex/chat.go
\* ------------------------------------------------------------------------
\* (variant: the chunk is built without the delta text)
convertWithoutDeltaText(payload) == ChunkUnit(<<>>)

\* convertResponsesStreamToChatStream followed by json.Marshal: the chunk
\* carries the delta text as choices[0].delta.content.
convertResponsesStreamToChatStream(payload) == ChunkUnit(payload.delta)

\* (variant: the event's counters are added to the old ones)
AccumulateUsage(old, new) == <<old[1] + new[1], old[2] + new[2], old[3] + new[3]>>

\* The usage a parsed event makes the handler store: the event's counters,
\* overwriting the old ones.
StoreUsage(old, new) == new

\* HandlerStream: one raw line in, the new usage and the units sent out.
HandlerStream(u, rawLine) ==
    IF IsEmptyLine(rawLine) THEN [usage |-> u, out |-> <<>>]
    ELSE IF ~HasPrefix(rawLine, "data:") THEN [usage |-> u, out |-> <<>>]
    ELSE LET data == DataOf(rawLine) IN
        IF data = DonePayload THEN [usage |-> u, out |-> <<>>]
        ELSE IF ~ParsesAsJSON(data) THEN [usage |-> u, out |-> <<>>]
        ELSE IF data.type = "response.completed" /\ data.hasResp
            THEN [usage |-> IF data.usage # NoUsage THEN StoreUsage(u, data.usage) ELSE u,
                  out |-> <<>>]
        ELSE IF data.type = "response.output_text.delta"
            THEN [usage |-> u, out |-> <<convertResponsesStreamToChatStream(data)>>]
        ELSE [usage |-> u, out |-> <<>>]

\* ------------------------------------------------------------------------
\* providers/codex/responses.go
\* ------------------------------------------------------------------------
\* HandlerResponsesStream: h is the handler (usage, eventBuffer, eventType);
\* the result is the handler afterwards and the units sent out.
HandlerResponsesStream(h, rawStr) ==
    IF HasPrefix(rawStr, "event: ")
    THEN [usage |-> h.usage,
          eventBuffer |-> <<rawStr>>,
          eventType |-> [name |-> rawStr.body.type, nl |-> rawStr.nl],
          out |-> <<>>]
    ELSE IF ~HasPrefix(rawStr, "data: ")
    THEN IF Len(h.eventBuffer) > 0
         THEN [usage |-> h.usage, eventBuffer |-> Append(h.eventBuffer, rawStr),
               eventType |-> h.eventType, out |-> <<>>]
         ELSE [usage |-> h.usage, eventBuffer |-> h.eventBuffer,
               eventType |-> h.eventType, out |-> <<RawUnit(rawStr)>>]
    ELSE LET dataLine == DataOf(rawStr) IN
        IF dataLine = DonePayload
        THEN IF Len(h.eventBuffer) > 0
             THEN [usage |-> h.usage, eventBuffer |-> <<>>, eventType |-> NoEventType,
                   out |-> <<EventUnit(h.eventBuffer)>>]
             ELSE [usage |-> h.usage, eventBuffer |-> h.eventBuffer,
                   eventType |-> h.eventType, out |-> <<>>]
        ELSE LET u == IF /\ ParsesAsJSON(dataLine)
                         /\ dataLine.type = "response.completed"
                         /\ dataLine.hasResp
                         /\ dataLine.usage # NoUsage
                      THEN StoreUsage(h.usage, dataLine.usage)
                      ELSE h.usage
                 buf == Append(h.eventBuffer, rawStr)
             IN IF Len(h.eventBuffer) > 0
                THEN IF HasSuffixBlankLine(buf)
                     THEN [usage |-> u, eventBuffer |-> <<>>, eventType |-> NoEventType,
                           out |-> <<EventUnit(buf)>>]
                     ELSE [usage |-> u, eventBuffer |-> buf, eventType |-> h.eventType,
                           out |-> <<>>]
                ELSE [usage |-> u, eventBuffer |-> h.eventBuffer,
                      eventType |-> h.eventType, out |-> <<RawUnit(rawStr)>>]

\* The field prefix extractJSONFromSSE looks for on each trimmed line.
SSEDataPrefix == "data: "

SSEDataPrefixNoSpace == "data:"

\* extractJSONFromSSE: the payload of the first line of the unit that, once
\* trimmed, starts with the data prefix; EmptyPayload ("") when there is none.
RECURSIVE extractFrom(_, _)
extractFrom(lines, i) ==
    IF i > Len(lines) THEN EmptyPayload
    ELSE IF HasPrefix(TrimSpace(lines[i]), SSEDataPrefix) THEN DataOf(lines[i])
    ELSE extractFrom(lines, i + 1)

extractJSONFromSSE(unit) == extractFrom(unit.lines, 1)

\* strings.TrimSpace(data) == "" for a unit received by the aggregator
IsBlankUnit(unit) ==
    /\ unit.form \in {"raw", "event"}
    /\ \A i \in 1..Len(unit.lines) :
          unit.lines[i].pfx = "" /\ unit.lines[i].body = EmptyPayload

\* *OpenAIResponsesResponses captured from a response.completed event
NoResponse == [present |-> FALSE, usage |-> NoUsage]
ResponseOf(payload) == [present |-> TRUE, usage |-> payload.usage]


\* ------------------------------------------------------------------------
\* The stream machine: producer goroutine, handler, aggregator
\* ------------------------------------------------------------------------
NoResult == [status |-> "none", content |-> <<>>, response |-> NoResponse, usage |-> NoUsage]

InitHist ==
    [deltas |-> <<>>,            \* text of the content deltas fed so far, concatenated
     lastUsage |-> ZeroUsage,    \* counters of the last completed-with-usage event fed
     completedFed |-> FALSE,     \* a response.completed payload was fed
     lastRecv |-> NoUnit,        \* the last unit the aggregator received
     recvCompleted |-> FALSE,    \* the aggregator received a unit holding a completed event
     gotEOF |-> FALSE,           \* the aggregator received EOF from errChan
     gotErr |-> FALSE,           \* the aggregator received another error from errChan
     sawDataClosed |-> FALSE,    \* the aggregator found dataChan closed
     sawErrClosed |-> FALSE,     \* the aggregator found errChan closed
     doneFed |-> FALSE]          \* a line carrying the done marker was fed

StreamOff ==
    /\ mode = "off" /\ noTrim = FALSE /\ usage = ZeroUsage /\ eventBuffer = <<>>
    /\ eventType = NoEventType /\ prodPc = "off" /\ prodMsg = NoUnit /\ nRead = 0
    /\ dataClosed = FALSE /\ errClosed = FALSE /\ aggPc = "off" /\ aggContent = <<>>
    /\ aggResponse = NoResponse /\ aggResult = NoResult /\ hist = InitHist

\* CreateChatCompletion / CreateResponses up to the call of the aggregator:
\* a fresh handler, a zero Usage, nothing read.
StreamInit ==
    /\ mode \in {"chat", "responses"}
    /\ noTrim \in BOOLEAN
    /\ (mode = "chat" => ~noTrim)
    /\ usage = ZeroUsage
    /\ eventBuffer = <<>>
    /\ eventType = NoEventType
    /\ prodPc = "read"
    /\ prodMsg = NoUnit
    /\ nRead = 0
    /\ dataClosed = FALSE
    /\ errClosed = FALSE
    /\ aggPc = "select"
    /\ aggContent = <<>>
    /\ aggResponse = NoResponse
    /\ aggResult = NoResult
    /\ hist = InitHist

FeedHist(line) ==
    [hist EXCEPT
        !.deltas = IF IsContentDelta(line) THEN @ \o line.body.delta ELSE @,
        !.lastUsage = IF IsCompletedWithUsage(line) THEN line.body.usage ELSE @,
        !.completedFed = @ \/ (line.pfx \in {"data: ", "data:"}
                                /\ line.body.kind = "json"
                                /\ line.body.type = "response.completed"),
        !.doneFed = @ \/ (line.pfx \in {"data: ", "data:"} /\ line.body = DonePayload)]

\* The producer reads one line and runs the handler on it; when the handler
\* sends a unit the producer blocks in that send.
ProdLineChat(line) ==
    /\ mode = "chat" /\ prodPc = "read" /\ nRead < MaxLines
    /\ LET r == HandlerStream(usage, line) IN
        /\ usage' = r.usage
        /\ prodPc' = IF r.out = <<>> THEN "read" ELSE "send"
        /\ prodMsg' = IF r.out = <<>> THEN NoUnit ELSE r.out[1]
    /\ nRead' = nRead + 1
    /\ hist' = FeedHist(line)
    /\ UNCHANGED <<mode, noTrim, eventBuffer, eventType, dataClosed, errClosed,
                   aggPc, aggContent, aggResponse, aggResult>>
    /\ UNCHANGED <<relVars, tokVars, mrgVars, hdrVars, reqVars, oauVars>>

ProdLineResponses(line) ==
    /\ mode = "responses" /\ prodPc = "read" /\ nRead < MaxLines
    /\ LET r == HandlerResponsesStream(
                    [usage |-> usage, eventBuffer |-> eventBuffer, eventType |-> eventType],
                    line) IN
        /\ usage' = r.usage
        /\ eventBuffer' = r.eventBuffer
        /\ eventType' = r.eventType
        /\ prodPc' = IF r.out = <<>> THEN "read" ELSE "send"
        /\ prodMsg' = IF r.out = <<>> THEN NoUnit ELSE r.out[1]
    /\ nRead' = nRead + 1
    /\ hist' = FeedHist(line)
    /\ UNCHANGED <<mode, noTrim, dataClosed, errClosed,
                   aggPc, aggContent, aggResponse, aggResult>>
    /\ UNCHANGED <<relVars, tokVars, mrgVars, hdrVars, reqVars, oauVars>>

\* The body read fails: io.EOF at the end of the body, another error when the
\* connection breaks. The producer blocks sending it on errChan.
ProdReadErr(msg) ==
    /\ prodPc = "read"
    /\ prodPc' = "sendErr"
    /\ prodMsg' = ErrUnit(msg)
    /\ UNCHANGED <<mode, noTrim, usage, eventBuffer, eventType, nRead, dataClosed,
                   errClosed, aggPc, aggContent, aggResponse, aggResult, hist>>
    /\ UNCHANGED <<relVars, tokVars, mrgVars, hdrVars, reqVars, oauVars>>

\* A stream implementation ends by closing a channel instead.
ProdClose(which) ==
    /\ prodPc \in {"read", "done"}
    /\ \/ which = "data" /\ ~dataClosed /\ dataClosed' = TRUE /\ UNCHANGED errClosed
       \/ which = "err" /\ ~errClosed /\ errClosed' = TRUE /\ UNCHANGED dataClosed
    /\ prodPc' = "done"
    /\ UNCHANGED <<mode, noTrim, usage, eventBuffer, eventType, prodMsg, nRead,
                   aggPc, aggContent, aggResponse, aggResult, hist>>
    /\ UNCHANGED <<relVars, tokVars, mrgVars, hdrVars, reqVars, oauVars>>


\* ---- the aggregators' select loop ----

\* (variant: the new text is put in front of the accumulated content)
collectStreamResponseDataPrepend(content, unit) ==
    IF unit.form # "chunk" THEN content ELSE unit.content \o content

\* collectStreamResponse, case data: the chunk is parsed back and its
\* choices[0].delta.content appended when not empty; a unit that does not
\* parse as a chunk is skipped.
collectStreamResponseData(content, unit) ==
    IF unit.form # "chunk" THEN content
    ELSE IF unit.content # <<>> THEN content \o unit.content
    ELSE content

\* collectResponsesStreamResponse, case data: st is (response, usage).
collectResponsesStreamResponseData(st, unit) ==
    IF IsBlankUnit(unit) THEN st
    ELSE LET jsonData == extractJSONFromSSE(unit) IN
        IF jsonData = EmptyPayload THEN st
        ELSE IF ~ParsesAsJSON(jsonData) THEN st
        ELSE IF jsonData.type = "response.completed" /\ jsonData.hasResp
            THEN [response |-> ResponseOf(jsonData),
                  usage |-> IF jsonData.usage # NoUsage
                            THEN StoreUsage(st.usage, jsonData.usage)
                            ELSE st.usage]
        ELSE st

\* Where the loop goes after a unit was handled: both aggregators go round
\* again, whatever the unit was.
ReturnOnCompleted(response) == IF response.present THEN "build" ELSE "select"

AfterData(response) == "select"

\* Where the loop goes when errChan is found closed: `continue`.
ReturnOnErrClosed == "build"

AfterErrClosed == "select"

\* Case err: EOF ends the stream normally, any other error aborts.
TreatAllAsEOF(msg) == "build"

TreatAllAsFailure(msg) == "stream_read_failed"

AfterErr(msg) == IF msg = "EOF" THEN "build" ELSE "stream_read_failed"

\* buildResponse of collectStreamResponse: always a response.
BuildChat(content, us) ==
    [status |-> "ok", content |-> content, response |-> NoResponse, usage |-> us]

\* buildResponse of collectResponsesStreamResponse: nil response -> no_response.
BuildResponses(response, us) ==
    IF ~response.present
    THEN [status |-> "no_response", content |-> <<>>, response |-> NoResponse, usage |-> NoUsage]
    ELSE [status |-> "ok", content |-> <<>>, response |-> response, usage |-> us]

Build(content, response, us) ==
    IF mode = "chat" THEN BuildChat(content, us) ELSE BuildResponses(response, us)

Failed(code) == [status |-> code, content |-> <<>>, response |-> NoResponse, usage |-> NoUsage]

\* Finish the aggregator according to `where`: "select", "build" or an error code.
AggGoes(where, content, response, us) ==
    /\ aggPc' = IF where = "select" THEN "select" ELSE "done"
    /\ aggResult' = IF where = "select" THEN aggResult
                    ELSE IF where = "build" THEN Build(content, response, us)
                    ELSE Failed(where)

HoldsCompleted(unit) ==
    \E i \in 1..Len(unit.lines) :
        /\ unit.lines[i].pfx \in {"data: ", "data:"}
        /\ unit.lines[i].body.kind = "json"
        /\ unit.lines[i].body.type = "response.completed"
        /\ unit.lines[i].body.hasResp

\* case data, ok := <-dataChan with ok: the rendezvous with the blocked producer.
AggRecvData ==
    /\ aggPc = "select" /\ prodPc = "send"
    /\ prodPc' = "read"
    /\ prodMsg' = NoUnit
    /\ hist' = [hist EXCEPT !.lastRecv = prodMsg,
                            !.recvCompleted = @ \/ HoldsCompleted(prodMsg)]
    /\ IF mode = "chat"
       THEN /\ aggContent' = collectStreamResponseData(aggContent, prodMsg)
            /\ UNCHANGED <<aggResponse, usage>>
            /\ AggGoes(AfterData(aggResponse), aggContent', aggResponse, usage)
       ELSE LET st == collectResponsesStreamResponseData(
                          [response |-> aggResponse, usage |-> usage], prodMsg) IN
            /\ aggResponse' = st.response
            /\ usage' = st.usage
            /\ UNCHANGED aggContent
            /\ AggGoes(AfterData(st.response), aggContent, st.response, st.usage)
    /\ UNCHANGED <<mode, noTrim, eventBuffer, eventType, nRead, dataClosed, errClosed>>
    /\ UNCHANGED <<relVars, tokVars, mrgVars, hdrVars, reqVars, oauVars>>

\* case data, ok := <-dataChan with !ok: goto buildResponse.
AggDataClosed ==
    /\ aggPc = "select" /\ dataClosed
    /\ hist' = [hist EXCEPT !.sawDataClosed = TRUE]
    /\ AggGoes("build", aggContent, aggResponse, usage)
    /\ UNCHANGED <<mode, noTrim, usage, eventBuffer, eventType, prodPc, prodMsg, nRead,
                   dataClosed, errClosed, aggContent, aggResponse>>
    /\ UNCHANGED <<relVars, tokVars, mrgVars, hdrVars, reqVars, oauVars>>

\* case err, ok := <-errChan with ok.
AggRecvErr ==
    /\ aggPc = "select" /\ prodPc = "sendErr"
    /\ prodPc' = "done"
    /\ prodMsg' = NoUnit
    /\ hist' = [hist EXCEPT !.gotEOF = @ \/ prodMsg.content[1] = "EOF",
                            !.gotErr = @ \/ prodMsg.content[1] # "EOF"]
    /\ AggGoes(AfterErr(prodMsg.content[1]), aggContent, aggResponse, usage)
    /\ UNCHANGED <<mode, noTrim, usage, eventBuffer, eventType, nRead,
                   dataClosed, errClosed, aggContent, aggResponse>>
    /\ UNCHANGED <<relVars, tokVars, mrgVars, hdrVars, reqVars, oauVars>>

\* case err, ok := <-errChan with !ok: continue.
AggErrClosed ==
    /\ aggPc = "select" /\ errClosed
    /\ hist' = [hist EXCEPT !.sawErrClosed = TRUE]
    /\ AggGoes(AfterErrClosed, aggContent, aggResponse, usage)
    /\ UNCHANGED <<mode, noTrim, usage, eventBuffer, eventType, prodPc, prodMsg, nRead,
                   dataClosed, errClosed, aggContent, aggResponse>>
    /\ UNCHANGED <<relVars, tokVars, mrgVars, hdrVars, reqVars, oauVars>>


\* ------------------------------------------------------------------------
\* Idle states of the other two machines
\* ------------------------------------------------------------------------
Callers == {"p1", "p2"}

NoCred == [AccessToken |-> "", RefreshToken |-> "", ExpiresAt |-> -1]

NoEntry == [token |-> "", expires |-> -1]

NoReturn == [token |-> "", err |-> ""]

InitTokenHist ==
    [issued |-> 0,                          \* access tokens issued by the endpoint
     reqs |-> [c \in Callers |-> 0],        \* requests sent by the caller's Refresh in progress
     fatalAt |-> [c \in Callers |-> 0],     \* which request of its latest Refresh (1, 2, ..) was
                                            \* answered with a code that must not be retried
     failedAfter |-> [c \in Callers |-> 0], \* requests sent when its latest Refresh failed
     handed |-> "none"]                     \* access token of the credential last handed to
                                            \* saveCredentialsToDatabase

RelayOff ==
    /\ rProdPc = "off" /\ rProdMsg = NoUnit /\ rSent = <<>> /\ rPc = "off"
    /\ rBody = <<>> /\ rFirst = FALSE /\ rRet = "none"

TokenOff ==
    /\ tPc = [c \in Callers |-> "off"]
    /\ cred = [c \in Callers |-> NoCred]
    /\ handlerToken = [c \in Callers |-> ""]
    /\ attempt = [c \in Callers |-> 0]
    /\ ret = [c \in Callers |-> NoReturn]
    /\ surfaced = [c \in Callers |-> <<>>]
    /\ cache = NoEntry
    /\ stored = NoCred
    /\ now = 0
    /\ thist = InitTokenHist

MergeOff ==
    /\ mHeap = <<>> /\ mBody = 0 /\ mParams = 0 /\ mSkip = FALSE
    /\ mMerges = 0 /\ mCount = 0 /\ mOnce = {} /\ mParams0 = {}
    /\ mPre = [ran |-> FALSE, body |-> {}, params |-> {}, eff |-> {}, cut |-> {}, effCut |-> {}]
    /\ mCollides = FALSE

HeadersOff == hPc = "off" /\ hEnv = <<>> /\ hHeaders = <<>>

RequestOff == qPc = "off" /\ qArrived = <<>> /\ qReq = <<>>

OAuthOff ==
    /\ oCache = {} /\ oStarted = 0
    /\ oPc = <<>> /\ oReq = <<>> /\ oResp = <<>>

\* ------------------------------------------------------------------------
\* Specification of the stream machine
\* ------------------------------------------------------------------------
Init == StreamInit /\ RelayOff /\ TokenOff /\ MergeOff /\ HeadersOff /\ RequestOff /\ OAuthOff

Next ==
    \/ \E line \in Lines(noTrim) : ProdLineChat(line)
    \/ \E line \in Lines(noTrim) : ProdLineResponses(line)
    \/ \E msg \in {"EOF", "upstream stream broken"} : ProdReadErr(msg)
    \/ \E which \in {"data", "err"} : ProdClose(which)
    \/ AggRecvData
    \/ AggDataClosed
    \/ AggRecvErr
    \/ AggErrClosed

Spec == Init /\ [][Next]_vars


\* ------------------------------------------------------------------------
\* Claims about the stream machine (checked under Spec)
\* ------------------------------------------------------------------------

\* C5: the Chat aggregator, ended by end-of-stream, returns a message body
\* equal to the concatenation, in arrival order, of the text of every content
\* delta fed before the end of the stream.
Thm_C5_ChatContentIsConcatenation ==
    (mode = "chat" /\ aggPc = "done" /\ hist.gotEOF)
        => /\ aggResult.status = "ok"
           /\ aggResult.content = hist.deltas

\* C5 witness: deltas "A" then "B", a completed event, end-of-stream: "AB".
Wit_C5_AB ==
    /\ mode = "chat" /\ aggPc = "done" /\ hist.gotEOF
    /\ hist.deltas = <<"A", "B">>
    /\ hist.completedFed
    /\ aggResult.content = <<"A", "B">>

\* C6 as claimed: an aggregation that ends without a read error and in whose
\* stream no completed payload was observed fails with no_response, in both
\* aggregators.
Claim_C6_NoCompletedMeansNoResponse ==
    (aggPc = "done" /\ ~hist.completedFed /\ ~hist.gotErr)
        => aggResult.status = "no_response"

\* The unit holds one data field, written without the space after the colon,
\* carrying a response.completed event with a response and usage.
NoSpaceCompletedUnit(unit) ==
    /\ unit.form \in {"raw", "event"}
    /\ \E i \in 1..Len(unit.lines) :
          /\ unit.lines[i].pfx = "data:"
          /\ IsCompletedWithUsage(unit.lines[i])
          /\ \A j \in 1..Len(unit.lines) :
                j # i => unit.lines[j].pfx \notin {"data: ", "data:"}

PayloadOfNoSpaceUnit(unit) ==
    (CHOOSE i \in 1..Len(unit.lines) : unit.lines[i].pfx = "data:").body

\* C7 as claimed: collectResponsesStreamResponse, having last received a unit
\* whose data line is written `data:{...}` and carries response.completed,
\* returns that response without error with the usage counters of the payload.
Claim_C7_AcceptsDataWithoutSpace ==
    (mode = "responses" /\ aggPc = "done" /\ hist.gotEOF
        /\ NoSpaceCompletedUnit(hist.lastRecv))
        => /\ aggResult.status = "ok"
           /\ aggResult.response = ResponseOf(PayloadOfNoSpaceUnit(hist.lastRecv))
           /\ usage = PayloadOfNoSpaceUnit(hist.lastRecv).usage

\* C8 as claimed: after any sequence of handled lines the three counters are
\* those of the most recent response.completed event that carried usage, or
\* the initial ones when there was none.
Claim_C8_UsageIsLastCompleted == usage = hist.lastUsage

\* C9: EOF received from the error source never gives stream_read_failed; any
\* other error received from it ends the aggregation with stream_read_failed
\* and no response.
Thm_C9_EOFBenignOtherErrorsAbort ==
    /\ hist.gotEOF => (aggPc = "done" /\ aggResult.status \in {"ok", "no_response"})
    /\ hist.gotErr => (aggPc = "done" /\ aggResult = Failed("stream_read_failed"))

\* C9 witness: content was accumulated, then a broken stream aborted it.
Wit_C9_AbortAfterContent ==
    /\ hist.gotErr /\ aggPc = "done"
    /\ hist.lastRecv.form \in {"chunk", "raw", "event"}
    /\ aggResult.status = "stream_read_failed"

\* C10 as claimed: once the error source was found closed, or a
\* response.completed event was received, the aggregator has returned.
Claim_C10_EndsOnCloseOrTerminalEvent ==
    (hist.sawErrClosed \/ hist.recvCompleted) => aggPc = "done"

\* C10 amended: the loop ends exactly when the data source is found closed or
\* a value (EOF or another error) is received from the error source; neither
\* a received response.completed event nor a closed error source ends it.
Thm_C10_EndsOnDataCloseOrErrValue ==
    (aggPc = "done") <=> (hist.sawDataClosed \/ hist.gotEOF \/ hist.gotErr)

\* C10 witness: a completed event was received and the aggregator returned
\* only when EOF arrived.
Wit_C10_CompletedThenEOF ==
    /\ aggPc = "done" /\ hist.recvCompleted /\ hist.gotEOF
    /\ ~hist.sawDataClosed

\* What one step of the producer hands to dataChan: the lines of the unit it
\* is now blocked sending, nothing when it went on reading.
HandedOver == IF prodPc' = "send" THEN prodMsg'.lines ELSE <<>>

\* The done marker: a data field whose payload is [DONE].
IsDoneMarker(line) == line.pfx \in {"data: ", "data:"} /\ DataOf(line) = DonePayload

\* One more line was read, and of the lines buffered before it and the line
\* itself, in that order, every one is now either handed over or still
\* buffered (the done marker may be dropped).
LineKept ==
    \E line \in Lines(noTrim) :
        \/ HandedOver \o eventBuffer' = Append(eventBuffer, line)
        \/ IsDoneMarker(line) /\ HandedOver \o eventBuffer' = eventBuffer

\* The read of the body ended or the stream was closed while lines were buffered.
EndsWithBufferedLines ==
    prodPc = "read" /\ prodPc' \in {"sendErr", "done"} /\ eventBuffer # <<>>

\* An `event: ` line was read while an earlier event was buffered.
EventLineOverBufferedEvent ==
    /\ nRead' = nRead + 1 /\ eventBuffer # <<>> /\ HandedOver = <<>>
    /\ Len(eventBuffer') = 1 /\ HasPrefix(eventBuffer'[1], "event: ")

\* C30: in passthrough mode every upstream line other than the done marker is
\* contained in exactly one emitted unit, and units are emitted in arrival
\* order: each line read leaves the lines buffered so far, followed by itself,
\* handed over or still buffered, none lost and none twice, also when it is an
\* `event: ` line arriving over a buffered event; and the stream never ends
\* with lines left in the buffer (the handler resets its buffer on an
\* `event: ` line and nothing flushes it at the end: this does not hold).
Claim_C30_EveryLineEmittedOnceInOrder ==
    [][mode = "responses"
          => /\ (nRead' = nRead + 1 => LineKept)
             /\ ~EndsWithBufferedLines]_vars

\* Apart from those two cases the handler loses no line and repeats none.
LinesLostOnlyByResetOrEnd ==
    [][(mode = "responses" /\ nRead' = nRead + 1 /\ ~EventLineOverBufferedEvent)
          => LineKept]_vars

\* A blank line: the boundary of an SSE event ("" trimmed, "\n" untrimmed).
IsBlankLine(line) == line.pfx = "" /\ line.body = EmptyPayload

\* A line was read in passthrough mode while an event was open.
ReadInsideEvent == mode = "responses" /\ nRead' = nRead + 1 /\ eventBuffer # <<>>

\* The step handed over the buffered event closed by the line read, as one
\* unit, and reset the buffer and the recorded event type.
FlushedWith(line) ==
    /\ prodPc' = "send" /\ prodMsg' = EventUnit(Append(eventBuffer, line))
    /\ eventBuffer' = <<>> /\ eventType' = NoEventType

\* The step handed over what was buffered, without the line read (the done marker).
FlushedByDoneMarker == prodPc' = "send" /\ prodMsg' = EventUnit(eventBuffer)

\* C31: once an `event: ` line has opened an event, the lines that follow are
\* accumulated and nothing is emitted until the blank line that ends the event
\* is read (the flush by the done marker apart); the blank line makes the
\* handler emit the whole buffered event as exactly one unit and reset the
\* buffer and the event type (the handler tests for the boundary only after a
\* `data: ` line, on its own buffer, to which it has added a terminator of its
\* own: this does not hold).
Claim_C31_EventEmittedAtBlankLine ==
    [][ReadInsideEvent
          => /\ (prodPc' = "send" /\ ~FlushedByDoneMarker)
                    => \E line \in Lines(noTrim) : IsBlankLine(line) /\ FlushedWith(line)
             /\ ~\E line \in Lines(noTrim) :
                    IsBlankLine(line) /\ eventBuffer' = Append(eventBuffer, line)]_vars

\* What the handler does inside an event: it emits only on a `data: ` line
\* that leaves its buffer ending in two terminators, or on the done marker;
\* a blank line is appended like any other line that is no `data: ` line.
EventEmittedOnlyAfterDataLine ==
    [][(ReadInsideEvent /\ prodPc' = "send" /\ ~FlushedByDoneMarker)
          => \E line \in Lines(noTrim) :
                /\ HasPrefix(line, "data: ") /\ FlushedWith(line)
                /\ HasSuffixBlankLine(Append(eventBuffer, line))]_vars

\* A `data:` field, with or without the space after the colon.
IsDataLine(line) == line.pfx \in {"data: ", "data:"}

\* C32: when no event is open, a `data:` line whose payload is not the done
\* marker is emitted at once as exactly one unit that is the raw line itself,
\* and the buffer stays empty.
Thm_C32_DataLineForwardedWhenNoEventOpen ==
    [][\A line \in Lines(noTrim) :
          (/\ ProdLineResponses(line)
           /\ eventBuffer = <<>>
           /\ IsDataLine(line) /\ DataOf(line) # DonePayload)
              => /\ prodPc' = "send"
                 /\ prodMsg'.form = "raw" /\ prodMsg'.lines = <<line>>
                 /\ eventBuffer' = <<>>]_vars

\* C32 witness: an untrimmed content delta read with no event open is the
\* unit the producer is sending.
Wit_C32_DeltaLineForwarded ==
    /\ mode = "responses" /\ noTrim /\ eventBuffer = <<>>
    /\ prodPc = "send" /\ prodMsg.form = "raw"
    /\ prodMsg.lines = <<Line("data: ", Delta(<<"A">>), TRUE)>>

\* C33: a `data:` line whose payload is the done marker emits the buffered
\* event as one unit when the buffer is not empty (and resets the buffer and
\* the event type), emits nothing for the marker line itself, leaves usage
\* unchanged and ends the emission of the stream: no unit is emitted for a
\* line handled after it; in Chat mode the marker line emits nothing (the
\* handlers keep no record of the marker and go on emitting, and the
\* passthrough handler does not recognise the marker after `data:` without
\* a space: this does not hold).
Claim_C33_DoneMarkerFlushesAndEndsEmission ==
    [][\A line \in Lines(noTrim) :
          /\ (ProdLineResponses(line) /\ IsDoneMarker(line))
                => /\ usage' = usage
                   /\ eventBuffer' = <<>> /\ eventType' = NoEventType
                   /\ IF eventBuffer # <<>>
                      THEN prodPc' = "send" /\ prodMsg' = EventUnit(eventBuffer)
                      ELSE prodPc' = "read"
          /\ (ProdLineChat(line) /\ IsDoneMarker(line))
                => prodPc' = "read" /\ usage' = usage
          /\ ((ProdLineResponses(line) \/ ProdLineChat(line)) /\ hist.doneFed)
                => prodPc' = "read"]_vars

\* What the handlers do with the marker line itself: the passthrough handler,
\* for the marker after `data: `, flushes the buffered event, emits nothing
\* else and leaves usage alone; the Chat handler emits nothing.
DoneMarkerLineItself ==
    [][\A line \in Lines(noTrim) :
          /\ (ProdLineResponses(line) /\ IsDoneMarker(line) /\ HasPrefix(line, "data: "))
                => /\ usage' = usage
                   /\ eventBuffer' = <<>>
                   /\ IF eventBuffer # <<>>
                      THEN /\ prodPc' = "send" /\ prodMsg' = EventUnit(eventBuffer)
                           /\ eventType' = NoEventType
                      ELSE prodPc' = "read" /\ eventType' = eventType
          /\ (ProdLineChat(line) /\ IsDoneMarker(line))
                => prodPc' = "read" /\ usage' = usage]_vars

\* C34: in Chat mode a response.output_text.delta event produces exactly one
\* chunk, carrying exactly its delta text, in the step that reads it (so
\* chunks leave in arrival order) and leaves usage alone; a response.completed
\* event emits nothing and at most stores its usage; every other line emits
\* nothing and changes nothing; no line puts anything on the error channel.
Thm_C34_ChatEmitsOneChunkPerDelta ==
    [][\A line \in Lines(noTrim) :
          ProdLineChat(line)
              => /\ prodPc' # "sendErr"
                 /\ IF IsContentDelta(line)
                    THEN /\ prodPc' = "send"
                         /\ prodMsg'.form = "chunk" /\ prodMsg'.content = line.body.delta
                         /\ usage' = usage
                    ELSE /\ prodPc' = "read" /\ prodMsg' = NoUnit
                         /\ usage' = IF IsCompletedWithUsage(line)
                                     THEN line.body.usage ELSE usage]_vars

\* C34 witness: the second of two deltas is being sent as its own chunk, after
\* a completed event stored its usage without a chunk.
Wit_C34_SecondDeltaAfterCompleted ==
    /\ mode = "chat" /\ hist.deltas = <<"A", "B">> /\ usage = UsageA
    /\ prodPc = "send" /\ prodMsg.form = "chunk" /\ prodMsg.content = <<"B">>

\* A `data:` line that is no response.completed event: its payload does not
\* parse, or parses as an event of another type (the done marker apart).
IsUntrackedDataLine(line) ==
    /\ IsDataLine(line) /\ line.body # DonePayload
    /\ ~(ParsesAsJSON(line.body) /\ line.body.type = "response.completed")

\* The handler's call on such a line: usage is left alone, nothing goes to the
\* error channel, and the line is handed over as received or kept, as
\* received, at the end of the buffered event.
UntrackedLineHandled(line) ==
    /\ usage' = usage
    /\ prodPc' # "sendErr"
    /\ HandedOver \o eventBuffer' = Append(eventBuffer, line)

\* A step drops such a line from the buffer without handing it over, or ends
\* the stream while the line is in the buffer.
UntrackedLineDropped ==
    \E i \in 1..Len(eventBuffer) :
        /\ IsUntrackedDataLine(eventBuffer[i])
        /\ \/ EndsWithBufferedLines
           \/ /\ nRead' = nRead + 1
              /\ \A j \in 1..Len(HandedOver) : HandedOver[j] # eventBuffer[i]
              /\ \A j \in 1..Len(eventBuffer') : eventBuffer'[j] # eventBuffer[i]

\* C35: in passthrough mode a `data:` line that is not a successfully parsed
\* response.completed event leaves the usage counters unchanged, puts nothing
\* on the error channel and is still forwarded exactly as received: handed
\* over at once, or kept in the buffered event and never dropped from it
\* (a line kept in the buffer is lost with the buffer: this does not hold).
Claim_C35_UntrackedLineForwardedUsageKept ==
    [][mode = "responses"
          => /\ \A line \in Lines(noTrim) :
                    (ProdLineResponses(line) /\ IsUntrackedDataLine(line))
                        => UntrackedLineHandled(line)
             /\ ~UntrackedLineDropped]_vars

\* The handler's own call does what the claim says, whatever the payload.
UntrackedLineLeavesUsageAndIsKept ==
    [][\A line \in Lines(noTrim) :
          (ProdLineResponses(line) /\ IsUntrackedDataLine(line))
              => UntrackedLineHandled(line)]_vars

\* With no event open the line is emitted at once, as the repository's test
\* of the OpenAI handler expects.
UntrackedLineForwardedWhenNoEventOpen ==
    [][\A line \in Lines(noTrim) :
          (ProdLineResponses(line) /\ IsUntrackedDataLine(line) /\ eventBuffer = <<>>)
              => /\ usage' = usage
                 /\ prodPc' = "send" /\ prodMsg'.form = "raw" /\ prodMsg'.lines = <<line>>]_vars

\* The aggregator built its result after EOF arrived on the error channel.
BuiltAfterEOF == aggPc = "done" /\ hist.gotEOF

\* C39: with one producer that sends every chunk on the unbuffered data
\* channel before it sends EOF on the unbuffered error channel, the
\* aggregators drop no chunk: when the result is built after EOF nothing sent
\* is left unreceived, the Chat result holds the text of every delta, a
\* completed event that was received is the Responses result, and the usage
\* reported is that of the last completed event before EOF (the Responses
\* aggregator skips a received unit whose data field has no space after the
\* colon: this does not hold).
Claim_C39_NoChunkDroppedUsageIsLast ==
    BuiltAfterEOF
        => /\ prodPc = "done" /\ prodMsg = NoUnit
           /\ (mode = "chat") => aggResult.content = hist.deltas
           /\ (mode = "responses" /\ hist.recvCompleted) => aggResult.status = "ok"
           /\ (aggResult.status = "ok") => aggResult.usage = hist.lastUsage

\* The channels themselves lose nothing: EOF is sent only when no unit is
\* waiting to be received, and the Chat aggregator, whose handler accepts both
\* spellings of the data field, reports every delta and the last usage.
ChannelsDropNothing ==
    /\ (prodPc = "sendErr" \/ hist.gotEOF) => prodMsg.form \in {"err", "none"}
    /\ (BuiltAfterEOF /\ mode = "chat")
          => /\ aggResult.status = "ok"
             /\ aggResult.content = hist.deltas
             /\ aggResult.usage = hist.lastUsage

\* The first `data: ` line of a unit, 0 when it has none.
FirstSpacedDataLine(unit) ==
    IF \E i \in 1..Len(unit.lines) : unit.lines[i].pfx = "data: "
    THEN CHOOSE i \in 1..Len(unit.lines) :
            /\ unit.lines[i].pfx = "data: "
            /\ \A j \in 1..(i - 1) : unit.lines[j].pfx # "data: "
    ELSE 0

\* The Responses aggregator does take a completed event it receives behind
\* `data: `: it becomes the response, and its usage the usage.
SpacedCompletedEventIsTaken ==
    [][(/\ mode = "responses" /\ aggPc = "select" /\ prodPc = "send" /\ prodPc' = "read"
        /\ FirstSpacedDataLine(prodMsg) # 0)
          => LET line == prodMsg.lines[FirstSpacedDataLine(prodMsg)] IN
             (ParsesAsJSON(line.body) /\ line.body.type = "response.completed"
                 /\ line.body.hasResp)
                => /\ aggResponse' = ResponseOf(line.body)
                   /\ (line.body.usage # NoUsage) => usage' = line.body.usage]_vars


\* ------------------------------------------------------------------------
\* The relay machine: responseStreamClient writing a stream to the caller
\* ------------------------------------------------------------------------
Chunks == {"chunk-1", "chunk-2"}

\* What responseStreamClient writes: `data: <chunk>` for a chunk, one inline
\* error event whose payload carries the code stream_error.
DataEvent(chunk) == [kind |-> "data", text |-> chunk]
StreamErrorEvent == [kind |-> "stream_error", text |-> ""]

\* (variant: the mid-stream error is returned to the caller as a hard failure)
ReturnStreamError(body) == [body |-> body, ret |-> "stream_error"]

\* A non-EOF error after at least one chunk was forwarded: the error is
\* appended to the stream as one inline error event and nil is returned.
OnMidStreamError(body) == [body |-> Append(body, StreamErrorEvent), ret |-> "none"]

RelayInit ==
    /\ rProdPc = "next" /\ rProdMsg = NoUnit /\ rSent = <<>> /\ rPc = "select"
    /\ rBody = <<>> /\ rFirst = FALSE /\ rRet = "none"

\* the stream source has a chunk and blocks sending it on dataChan
RProdChunk(chunk) ==
    /\ rProdPc = "next" /\ Len(rSent) < MaxChunks
    /\ rProdPc' = "send"
    /\ rProdMsg' = ChunkUnit(<<chunk>>)
    /\ UNCHANGED <<rSent, rPc, rBody, rFirst, rRet>>
    /\ UNCHANGED <<strVars, tokVars, mrgVars, hdrVars, reqVars, oauVars>>

\* the stream source ends: io.EOF, or a broken upstream
RProdErr(msg) ==
    /\ rProdPc = "next"
    /\ rProdPc' = "sendErr"
    /\ rProdMsg' = ErrUnit(msg)
    /\ UNCHANGED <<rSent, rPc, rBody, rFirst, rRet>>
    /\ UNCHANGED <<strVars, tokVars, mrgVars, hdrVars, reqVars, oauVars>>

\* case data := <-dataChan: the chunk is written and flushed; the first one
\* sets firstResponseTime.
RRecvData ==
    /\ rPc = "select" /\ rProdPc = "send"
    /\ rBody' = Append(rBody, DataEvent(rProdMsg.content[1]))
    /\ rFirst' = TRUE
    /\ rSent' = Append(rSent, rProdMsg)
    /\ rProdPc' = "next"
    /\ rProdMsg' = NoUnit
    /\ UNCHANGED <<rPc, rRet>>
    /\ UNCHANGED <<strVars, tokVars, mrgVars, hdrVars, reqVars, oauVars>>

\* case err := <-errChan with EOF: the clean end of the stream, no error.
RRecvEOF ==
    /\ rPc = "select" /\ rProdPc = "sendErr" /\ rProdMsg.content[1] = "EOF"
    /\ rSent' = Append(rSent, rProdMsg)
    /\ rProdPc' = "done"
    /\ rProdMsg' = NoUnit
    /\ rPc' = "done"
    /\ UNCHANGED <<rBody, rFirst, rRet>>
    /\ UNCHANGED <<strVars, tokVars, mrgVars, hdrVars, reqVars, oauVars>>

\* case err := <-errChan with another error, after a chunk was forwarded.
RRecvErrMidStream ==
    /\ rPc = "select" /\ rProdPc = "sendErr" /\ rProdMsg.content[1] # "EOF"
    /\ rFirst
    /\ LET r == OnMidStreamError(rBody) IN rBody' = r.body /\ rRet' = r.ret
    /\ rSent' = Append(rSent, rProdMsg)
    /\ rProdPc' = "done"
    /\ rProdMsg' = NoUnit
    /\ rPc' = "done"
    /\ UNCHANGED rFirst
    /\ UNCHANGED <<strVars, tokVars, mrgVars, hdrVars, reqVars, oauVars>>

\* The same before any chunk was forwarded: nothing states what happens then;
\* the error is either written inline or returned.
RRecvErrAtStart ==
    /\ rPc = "select" /\ rProdPc = "sendErr" /\ rProdMsg.content[1] # "EOF"
    /\ ~rFirst
    /\ \/ rBody' = Append(rBody, StreamErrorEvent) /\ rRet' = "none"
       \/ rBody' = rBody /\ rRet' = "stream_error"
    /\ rSent' = Append(rSent, rProdMsg)
    /\ rProdPc' = "done"
    /\ rProdMsg' = NoUnit
    /\ rPc' = "done"
    /\ UNCHANGED rFirst
    /\ UNCHANGED <<strVars, tokVars, mrgVars, hdrVars, reqVars, oauVars>>

InitRelay == RelayInit /\ StreamOff /\ TokenOff /\ MergeOff /\ HeadersOff /\ RequestOff /\ OAuthOff

NextRelay ==
    \/ \E chunk \in Chunks : RProdChunk(chunk)
    \/ \E msg \in {"EOF", "upstream stream broken"} : RProdErr(msg)
    \/ RRecvData
    \/ RRecvEOF
    \/ RRecvErrMidStream
    \/ RRecvErrAtStart

SpecRelay == InitRelay /\ [][NextRelay]_vars

\* The data events of the chunks among the first n things handed over.
RECURSIVE DataEventsOf(_, _)
DataEventsOf(sent, n) ==
    IF n = 0 THEN <<>>
    ELSE IF sent[n].form = "chunk"
         THEN Append(DataEventsOf(sent, n - 1), DataEvent(sent[n].content[1]))
         ELSE DataEventsOf(sent, n - 1)

EndedByError(sent) ==
    /\ Len(sent) > 0
    /\ sent[Len(sent)].form = "err"
    /\ sent[Len(sent)].content[1] # "EOF"

\* C4: when the source delivered at least one chunk and then a non-EOF error,
\* the body holds every chunk, in order, followed by exactly one stream_error
\* event, and responseStreamClient returned no error.
Thm_C4_MidStreamErrorInline ==
    (rPc = "done" /\ EndedByError(rSent) /\ Len(rSent) >= 2)
        => /\ rRet = "none"
           /\ rFirst
           /\ rBody = Append(DataEventsOf(rSent, Len(rSent) - 1), StreamErrorEvent)

\* C4 witness: the run of TestResponseStreamClientDoesNotReturnMidStreamError.
Wit_C4_OneChunkThenError ==
    /\ rPc = "done"
    /\ rSent = <<ChunkUnit(<<"chunk-1">>), ErrUnit("upstream stream broken")>>
    /\ rBody = <<DataEvent("chunk-1"), StreamErrorEvent>>
    /\ rRet = "none"


\* ------------------------------------------------------------------------
\* The credential machine: Create, GetToken, Refresh, the upstream error
\* handler (providers/codex/base.go and OAuth2Credentials)
\* ------------------------------------------------------------------------
NoTime == -1            \* the zero time.Time
ExpiryBuffer == 3       \* IsExpired: buffer := 3 * time.Minute
CacheCeiling == 55      \* GetToken: cacheDuration := 55 * time.Minute
DefaultExpiry == 60     \* parseCodexConfig: time.Now().Add(1 * time.Hour)
RefreshMaxRetries == 3  \* GetToken: p.Credentials.Refresh(ctx, proxyURL, 3)

\* Access tokens the token endpoint hands out, one after the other.
IssuedTokens == <<"at1", "at2", "at3", "at4">>

\* The channel keys a channel is configured with: a plain access token (no
\* refresh token), or JSON credentials with a refresh token and an expiry
\* that is absent, one minute away, or far.
InitialCredentials ==
    {[AccessToken |-> "at0", RefreshToken |-> "", ExpiresAt |-> NoTime]}
    \cup {[AccessToken |-> "at0", RefreshToken |-> "rt0", ExpiresAt |-> e] :
            e \in {NoTime, 1, 100}}

\* isNonRetryableError's list
nonRetryableErrors ==
    {"invalid_grant", "invalid_client", "unauthorized_client", "access_denied",
     "unsupported_grant_type", "invalid_scope"}

\* (variant: invalid_grant missing from the list)
isNonRetryableErrorWithoutInvalidGrant(errorType) ==
    errorType \in (nonRetryableErrors \ {"invalid_grant"})

isNonRetryableError(errorType) == errorType \in nonRetryableErrors

\* IsExpired at time t
IsExpired(c, t) ==
    IF c.ExpiresAt = NoTime THEN TRUE ELSE t + ExpiryBuffer > c.ExpiresAt

\* What the token endpoint can answer to one refresh request.
\*   kind "neterr": client.Do fails; "readerr": the body cannot be read;
\*   "status": a status other than 200 (code "" = the body is no JSON);
\*   "bad200": status 200 with a malformed body; "ok": status 200, parsed.
Response(kind, code, access, refresh, expiresIn) ==
    [kind |-> kind, code |-> code, access |-> access, refresh |-> refresh,
     expiresIn |-> expiresIn]

FailureResponses ==
    {Response("neterr", "", "", "", 0), Response("readerr", "", "", "", 0),
     Response("bad200", "", "", "", 0), Response("status", "", "", "", 0)}
    \cup {Response("status", e, "", "", 0) :
            e \in {"invalid_grant", "invalid_scope", "unauthorized_client", "server_error"}}

\* Status 200: a new access token with a rotated refresh token and a long
\* life, or with a life of one minute, or without expires_in; or a body that
\* has no access_token.
OkResponses(next) ==
    {Response("ok", "", next, "rt1", 120), Response("ok", "", next, "", 1),
     Response("ok", "", next, "", 0), Response("ok", "", "", "", 0)}

\* (variant: a malformed 200 body ends the Refresh instead of being retried)
RefreshAttemptMalformedIsFatal(c, r, t) ==
    IF r.kind \in {"neterr", "readerr"} THEN [next |-> "retry", cred |-> c]
    ELSE IF r.kind = "status"
        THEN IF r.code # "" /\ isNonRetryableError(r.code)
             THEN [next |-> "fail", cred |-> c]
             ELSE [next |-> "retry", cred |-> c]
    ELSE IF r.kind = "bad200" THEN [next |-> "fail", cred |-> c]
    ELSE [next |-> "done",
          cred |-> [AccessToken |-> r.access,
                    RefreshToken |-> IF r.refresh # "" THEN r.refresh ELSE c.RefreshToken,
                    ExpiresAt |-> IF r.expiresIn > 0 THEN t + r.expiresIn ELSE c.ExpiresAt]]

\* (variant: a failed attempt drops the access token it could not renew)
RefreshAttemptFailureClearsToken(c, r, t) ==
    IF r.kind \in {"neterr", "readerr"} THEN [next |-> "retry", cred |-> c]
    ELSE IF r.kind = "status"
        THEN IF r.code # "" /\ isNonRetryableError(r.code)
             THEN [next |-> "fail", cred |-> [c EXCEPT !.AccessToken = ""]]
             ELSE [next |-> "retry", cred |-> [c EXCEPT !.AccessToken = ""]]
    ELSE IF r.kind = "bad200" THEN [next |-> "retry", cred |-> c]
    ELSE [next |-> "done",
          cred |-> [AccessToken |-> r.access,
                    RefreshToken |-> IF r.refresh # "" THEN r.refresh ELSE c.RefreshToken,
                    ExpiresAt |-> IF r.expiresIn > 0 THEN t + r.expiresIn ELSE c.ExpiresAt]]

\* One pass of the body of Refresh's loop on response r: what the loop does
\* next ("fail", "retry" or "done") and the credential afterwards.
RefreshAttempt(c, r, t) ==
    IF r.kind \in {"neterr", "readerr"} THEN [next |-> "retry", cred |-> c]
    ELSE IF r.kind = "status"
        THEN IF r.code # "" /\ isNonRetryableError(r.code)
             THEN [next |-> "fail", cred |-> c]
             ELSE [next |-> "retry", cred |-> c]
    ELSE IF r.kind = "bad200" THEN [next |-> "retry", cred |-> c]
    ELSE [next |-> "done",
          cred |-> [AccessToken |-> r.access,
                    RefreshToken |-> IF r.refresh # "" THEN r.refresh ELSE c.RefreshToken,
                    ExpiresAt |-> IF r.expiresIn > 0 THEN t + r.expiresIn ELSE c.ExpiresAt]]

\* GetToken's cacheDuration at time t
CacheDuration(c, t) ==
    IF c.ExpiresAt # NoTime /\ c.ExpiresAt - t > 0 /\ c.ExpiresAt - t < CacheCeiling
    THEN c.ExpiresAt - t
    ELSE CacheCeiling

\* cache.GetCache at time t: the token of a live entry, "" otherwise
GetCache(t) == IF cache.token # "" /\ cache.expires > t THEN cache.token ELSE ""

\* strings.Replace(message, accessToken, "xxxxx", -1) on a message made of words
Scrub(message, accessToken) ==
    [i \in 1..Len(message) |-> IF message[i] = accessToken THEN "xxxxx" ELSE message[i]]

\* RequestErrorHandle(accessToken) applied to an upstream error body: the
\* message of the OpenAIError it returns, <<>> when it returns nil. A body is
\* a Codex error payload, a standard OpenAI error payload, or neither.
RequestErrorHandle(accessToken, body) ==
    IF body.format = "codex" /\ body.message # <<>>
    THEN IF accessToken # "" THEN Scrub(body.message, accessToken) ELSE body.message
    ELSE IF body.format = "other" THEN <<>>
    ELSE IF body.message = <<>> THEN <<>>
    ELSE IF accessToken # "" THEN Scrub(body.message, accessToken) ELSE body.message

Contains(message, word) == \E i \in 1..Len(message) : message[i] = word


\* ---- actions of one caller: a request served by its own provider ----

TokenInit ==
    /\ tPc = [c \in Callers |-> "new"]
    /\ cred = [c \in Callers |-> NoCred]
    /\ handlerToken = [c \in Callers |-> ""]
    /\ attempt = [c \in Callers |-> 0]
    /\ ret = [c \in Callers |-> NoReturn]
    /\ surfaced = [c \in Callers |-> <<>>]
    /\ cache = NoEntry
    /\ stored \in InitialCredentials
    /\ now = 0
    /\ thist = InitTokenHist

\* CodexProviderFactory.Create with parseCodexConfig: the credential is read
\* from the channel key and the error handler is built with its access token.
Create(c) ==
    /\ tPc[c] = "new"
    /\ LET parsed == IF stored.RefreshToken # "" /\ stored.ExpiresAt = NoTime
                     THEN [stored EXCEPT !.ExpiresAt = now + DefaultExpiry]
                     ELSE stored IN
        /\ cred' = [cred EXCEPT ![c] = parsed]
        /\ handlerToken' = [handlerToken EXCEPT ![c] = parsed.AccessToken]
    /\ tPc' = [tPc EXCEPT ![c] = "ready"]
    /\ UNCHANGED <<attempt, ret, surfaced, cache, stored, now, thist>>
    /\ UNCHANGED <<strVars, relVars, mrgVars, hdrVars, reqVars, oauVars>>

Return(c, token, err) ==
    /\ ret' = [ret EXCEPT ![c] = [token |-> token, err |-> err]]
    /\ tPc' = [tPc EXCEPT ![c] = "returned"]

\* (variant: every credential is put through the cache and refresh path)
TreatAsRefreshable(c) == TRUE

\* p.Credentials.RefreshToken != "": the credential is managed (cached, refreshed)
HasRefreshToken(c) == c.RefreshToken # ""

\* GetToken up to the cache lookup: the checks that need no shared state.
GetTokenEnter(c) ==
    /\ tPc[c] \in {"ready", "returned"}
    /\ surfaced' = [surfaced EXCEPT ![c] = <<>>]
    /\ thist' = [thist EXCEPT !.reqs[c] = 0, !.fatalAt[c] = 0, !.failedAfter[c] = 0]
    /\ IF cred[c].AccessToken = ""
       THEN Return(c, "", "access token is empty")
       ELSE IF ~HasRefreshToken(cred[c])
       THEN Return(c, cred[c].AccessToken, "")
       ELSE /\ tPc' = [tPc EXCEPT ![c] = "cache"]
            /\ ret' = [ret EXCEPT ![c] = NoReturn]
    /\ UNCHANGED <<cred, handlerToken, attempt, cache, stored, now>>
    /\ UNCHANGED <<strVars, relVars, mrgVars, hdrVars, reqVars, oauVars>>

\* cache.GetCache: a hit returns the cached token.
GetTokenCacheHit(c) ==
    /\ tPc[c] = "cache" /\ GetCache(now) # ""
    /\ Return(c, GetCache(now), "")
    /\ UNCHANGED <<cred, handlerToken, attempt, surfaced, cache, stored, now, thist>>
    /\ UNCHANGED <<strVars, relVars, mrgVars, hdrVars, reqVars, oauVars>>

\* A miss: IsExpired decides between refreshing (the first request leaves at
\* once) and caching the credential as it is.
GetTokenCacheMiss(c) ==
    /\ tPc[c] = "cache" /\ GetCache(now) = ""
    /\ IF IsExpired(cred[c], now)
       THEN /\ tPc' = [tPc EXCEPT ![c] = "inflight"]
            /\ attempt' = [attempt EXCEPT ![c] = 0]
            /\ thist' = [thist EXCEPT !.reqs[c] = 1]
       ELSE /\ tPc' = [tPc EXCEPT ![c] = "setcache"]
            /\ UNCHANGED <<attempt, thist>>
    /\ UNCHANGED <<cred, handlerToken, ret, surfaced, cache, stored, now>>
    /\ UNCHANGED <<strVars, relVars, mrgVars, hdrVars, reqVars, oauVars>>

\* The error codes after which a refresh must not be retried.
MustNotRetry ==
    {"invalid_grant", "invalid_client", "unauthorized_client", "access_denied",
     "unsupported_grant_type", "invalid_scope"}

\* The response of the request in flight arrives and the loop body runs on it.
RefreshResponse(c, r) ==
    /\ tPc[c] = "inflight"
    /\ LET a == RefreshAttempt(cred[c], r, now) IN
        /\ cred' = [cred EXCEPT ![c] = a.cred]
        /\ IF a.next = "done"
           THEN /\ tPc' = [tPc EXCEPT ![c] = "save"]
                /\ attempt' = [attempt EXCEPT ![c] = 0]
                /\ UNCHANGED ret
           ELSE IF a.next = "fail"
           THEN /\ Return(c, "", "failed to refresh token: non-retryable")
                /\ attempt' = [attempt EXCEPT ![c] = 0]
           ELSE IF attempt[c] + 1 <= RefreshMaxRetries
           THEN /\ tPc' = [tPc EXCEPT ![c] = "backoff"]
                /\ attempt' = [attempt EXCEPT ![c] = @ + 1]
                /\ UNCHANGED ret
           ELSE /\ Return(c, "", "failed to refresh token: retries exhausted")
                /\ attempt' = [attempt EXCEPT ![c] = 0]
    /\ thist' = [thist EXCEPT
            !.issued = IF r.kind = "ok" /\ r.access # "" THEN @ + 1 ELSE @,
            !.fatalAt[c] = IF @ = 0 /\ r.kind = "status" /\ r.code \in MustNotRetry
                           THEN thist.reqs[c] ELSE @,
            !.failedAfter[c] = IF tPc'[c] = "returned" THEN thist.reqs[c] ELSE @,
            !.reqs[c] = IF tPc'[c] = "backoff" THEN @ ELSE 0]
    /\ UNCHANGED <<handlerToken, surfaced, cache, stored, now>>
    /\ UNCHANGED <<strVars, relVars, mrgVars, hdrVars, reqVars, oauVars>>

\* time.Sleep(backoff) is over and the next request leaves.
RefreshRetry(c) ==
    /\ tPc[c] = "backoff"
    /\ tPc' = [tPc EXCEPT ![c] = "inflight"]
    /\ thist' = [thist EXCEPT !.reqs[c] = @ + 1]
    /\ UNCHANGED <<cred, handlerToken, attempt, ret, surfaced, cache, stored, now>>
    /\ UNCHANGED <<strVars, relVars, mrgVars, hdrVars, reqVars, oauVars>>

\* (variant: a failed save ends the call)
AbortOnSaveFailure(ok) == IF ok THEN "setcache" ELSE "returned"

\* Where GetToken goes after saveCredentialsToDatabase returned: its error is
\* logged and the call goes on to the cache write.
AfterSave(ok) == "setcache"

\* saveCredentialsToDatabase: the write may fail; the failure is only logged.
SaveCredentials(c, ok) ==
    /\ tPc[c] = "save"
    /\ stored' = IF ok THEN cred[c] ELSE stored
    /\ tPc' = [tPc EXCEPT ![c] = AfterSave(ok)]
    /\ thist' = [thist EXCEPT !.handed = cred[c].AccessToken]
    /\ UNCHANGED <<cred, handlerToken, attempt, ret, surfaced, cache, now>>
    /\ UNCHANGED <<strVars, relVars, mrgVars, hdrVars, reqVars, oauVars>>

\* cache.SetCache(cacheKey, AccessToken, cacheDuration) and the return.
GetTokenSetCache(c) ==
    /\ tPc[c] = "setcache"
    /\ cache' = [token |-> cred[c].AccessToken,
                 expires |-> now + CacheDuration(cred[c], now)]
    /\ Return(c, cred[c].AccessToken, "")
    /\ UNCHANGED <<cred, handlerToken, attempt, surfaced, stored, now, thist>>
    /\ UNCHANGED <<strVars, relVars, mrgVars, hdrVars, reqVars, oauVars>>

\* The upstream answers the request that carried the token with an error;
\* the requester runs the handler built in Create on the body.
UpstreamError(c, body) ==
    /\ tPc[c] = "returned" /\ ret[c].err = "" /\ surfaced[c] = <<>>
    /\ surfaced' = [surfaced EXCEPT ![c] = RequestErrorHandle(handlerToken[c], body)]
    /\ UNCHANGED <<tPc, cred, handlerToken, attempt, ret, cache, stored, now, thist>>
    /\ UNCHANGED <<strVars, relVars, mrgVars, hdrVars, reqVars, oauVars>>

Tick ==
    /\ now < MaxNow
    /\ now' = now + 1
    /\ UNCHANGED <<tPc, cred, handlerToken, attempt, ret, surfaced, cache, stored, thist>>
    /\ UNCHANGED <<strVars, relVars, mrgVars, hdrVars, reqVars, oauVars>>

\* Error bodies the upstream may send: it echoes the bearer token it received.
ErrorBodies(c) ==
    {[format |-> f, message |-> <<"invalid token", ret[c].token>>] :
        f \in {"codex", "openai", "other"}}
    \cup {[format |-> "openai", message |-> <<>>]}

NextIssued == IF thist.issued < MaxIssued THEN IssuedTokens[thist.issued + 1] ELSE ""

InitToken == TokenInit /\ StreamOff /\ RelayOff /\ MergeOff /\ HeadersOff /\ RequestOff /\ OAuthOff

NextToken ==
    \/ \E c \in Callers : Create(c)
    \/ \E c \in Callers : GetTokenEnter(c)
    \/ \E c \in Callers : GetTokenCacheHit(c)
    \/ \E c \in Callers : GetTokenCacheMiss(c)
    \/ \E c \in Callers : \E r \in FailureResponses \cup OkResponses(NextIssued) :
            RefreshResponse(c, r)
    \/ \E c \in Callers : RefreshRetry(c)
    \/ \E c \in Callers : \E ok \in BOOLEAN : SaveCredentials(c, ok)
    \/ \E c \in Callers : GetTokenSetCache(c)
    \/ \E c \in Callers : \E body \in ErrorBodies(c) : UpstreamError(c, body)
    \/ Tick

SpecToken == InitToken /\ [][NextToken]_vars


\* ---- claims about the credential machine ----

InFlight == {c \in Callers : tPc[c] = "inflight"}

\* C1: at most one refresh request for the channel is in flight at any time,
\* whatever the interleaving of the GetToken calls (GetToken has no
\* single-flight guard: this does not hold).
Claim_C1_AtMostOneRefreshInFlight == Cardinality(InFlight) <= 1

\* C2: a response with a code that must not be retried ends the Refresh at
\* that request: the call has returned its error, without a backoff wait and
\* without a further request, so a first response of that kind means exactly
\* one request was sent.
Thm_C2_NonRetryableEndsRefresh ==
    \A c \in Callers :
        thist.fatalAt[c] # 0
            => /\ tPc[c] = "returned"
               /\ ret[c].token = "" /\ ret[c].err # ""
               /\ thist.failedAfter[c] = thist.fatalAt[c]
               /\ thist.reqs[c] = 0

\* C2 witness: the first response carried such a code and the Refresh failed
\* after that one request.
Wit_C2_FailsAfterOneRequest ==
    \E c \in Callers :
        /\ thist.fatalAt[c] = 1 /\ thist.failedAfter[c] = 1
        /\ tPc[c] = "returned" /\ ret[c].err # ""

\* C3: the message surfaced for an upstream error never contains the access
\* token that was sent as the bearer token of the request (the handler scrubs
\* the token the provider was created with: this does not hold for a token
\* from the cache or from a refresh).
Claim_C3_SurfacedMessageHidesBearer ==
    \A c \in Callers :
        surfaced[c] # <<>> => ~Contains(surfaced[c], ret[c].token)


\* The same callers under the scheduling the code gives them: the HTTP client
\* has a 30 s timeout, so every request in flight is answered or fails, and
\* every time.Sleep(backoff) returns.
FairToken ==
    \A c \in Callers :
        /\ WF_vars(\E r \in FailureResponses \cup OkResponses(NextIssued) : RefreshResponse(c, r))
        /\ WF_vars(RefreshRetry(c))

SpecTokenLive == InitToken /\ [][NextToken]_vars /\ FairToken

\* A failure of the caller's latest Refresh that no non-retryable code caused
\* came only when the ceiling was exhausted.
FailsOnlyWhenExhausted ==
    \A c \in Callers :
        /\ thist.reqs[c] <= RefreshMaxRetries + 1
        /\ thist.failedAfter[c] <= RefreshMaxRetries + 1
        /\ (tPc[c] = "backoff") => thist.reqs[c] <= RefreshMaxRetries
        /\ (thist.failedAfter[c] # 0 /\ thist.fatalAt[c] = 0)
              => thist.failedAfter[c] = RefreshMaxRetries + 1

Thm_C12_OnlySuccessfulRefreshMutates ==
    [][\A c \in Callers :
        /\ (cred'[c] # cred[c])
              => \/ tPc[c] = "new"
                 \/ tPc[c] = "inflight" /\ tPc'[c] = "save"
        /\ (tPc[c] \in {"inflight", "backoff"} /\ tPc'[c] \notin {"inflight", "backoff", "save"})
              => /\ tPc'[c] = "returned"
                 /\ ret'[c].token = "" /\ ret'[c].err # ""
                 /\ cred'[c] = cred[c]
                 /\ cache' = cache
                 /\ stored' = stored]_vars

\* C12 witness: a GetToken call failed in its Refresh; the credential is the
\* one the provider was created with, nothing was cached or stored.
Wit_C12_FailedRefreshLeftNoTrace ==
    \E c \in Callers :
        /\ tPc[c] = "returned" /\ ret[c].err # "" /\ thist.failedAfter[c] # 0
        /\ cred[c] = stored /\ cred[c].AccessToken = "at0"
        /\ cache = NoEntry


\* The cache holds a live token for the channel.
CacheHoldsToken == cache.token # "" /\ cache.expires > now

\* The step is the entry of a GetToken call of caller c.
EntersGetToken(c) ==
    /\ tPc[c] \in {"ready", "returned"}
    /\ tPc'[c] # tPc[c] \/ ret'[c] # ret[c]

\* C13 as claimed: a GetToken call on a credential that has a refresh token,
\* made while the cache holds a token, does not return anything but the
\* cached token.
Claim_C13_RefreshableCredentialGetsCachedToken ==
    [][\A c \in Callers :
        (EntersGetToken(c) /\ cred[c].RefreshToken # "" /\ CacheHoldsToken
            /\ tPc'[c] = "returned")
            => ret'[c] = [token |-> cache.token, err |-> ""]]_vars

\* What does hold of the lookup: when the credential has a non-empty access
\* token and a refresh token, GetToken goes to the cache lookup, and when the
\* cache holds a token the lookup returns it without a refresh request and
\* without writing the cache, the stored key or the credential. With an empty
\* access token GetToken fails before it looks at the cache.
CacheHitReturnsAtOnce ==
    [][\A c \in Callers :
        /\ (EntersGetToken(c) /\ cred[c].AccessToken # "" /\ cred[c].RefreshToken # "")
              => /\ tPc'[c] = "cache"
                 /\ cache' = cache /\ stored' = stored /\ cred' = cred
        /\ (EntersGetToken(c) /\ cred[c].AccessToken = "")
              => /\ tPc'[c] = "returned"
                 /\ ret'[c].token = "" /\ ret'[c].err # ""
        /\ (tPc[c] = "cache" /\ tPc'[c] # "cache" /\ CacheHoldsToken)
              => /\ tPc'[c] = "returned"
                 /\ ret'[c] = [token |-> cache.token, err |-> ""]
                 /\ cache' = cache /\ stored' = stored /\ cred' = cred
                 /\ thist' = thist]_vars


\* C14: a GetToken call on a credential without a refresh token returns the
\* configured (non-empty) access token as it is and changes nothing else: the
\* cache, the stored key and the credential stay as they are and no refresh
\* request is sent.
Thm_C14_StaticTokenReturnedUnchanged ==
    [][\A c \in Callers :
        (EntersGetToken(c) /\ cred[c].AccessToken # "" /\ cred[c].RefreshToken = "")
            => /\ tPc'[c] = "returned"
               /\ ret'[c] = [token |-> cred[c].AccessToken, err |-> ""]
               /\ cache' = cache /\ stored' = stored /\ cred' = cred
               /\ thist'.issued = thist.issued
               /\ thist'.reqs[c] = 0]_vars

\* C14 witness: a channel configured with a plain access token served it.
Wit_C14_PlainTokenServed ==
    \E c \in Callers :
        /\ tPc[c] = "returned"
        /\ cred[c].RefreshToken = ""
        /\ ret[c] = [token |-> "at0", err |-> ""]
        /\ cache = NoEntry /\ stored = cred[c] /\ thist.issued = 0


\* C15: on a cache miss with an expired credential GetToken refreshes, then
\* makes one persistence attempt of the refreshed credential, then writes the
\* cache and returns the token. Every successful refresh is followed by the
\* persistence attempt; whether or not that attempt succeeds, the call goes
\* on to the cache write and returns without error.
Thm_C15_RefreshThenSaveThenCache ==
    [][/\ \A c \in Callers :
            /\ (tPc[c] = "cache" /\ tPc'[c] # "cache" /\ ~CacheHoldsToken)
                  => IF IsExpired(cred[c], now)
                     THEN tPc'[c] = "inflight" /\ cache' = cache /\ stored' = stored
                     ELSE tPc'[c] = "setcache" /\ cache' = cache /\ stored' = stored
            /\ (tPc[c] = "inflight" /\ cred'[c] # cred[c])
                  => tPc'[c] = "save" /\ cache' = cache /\ stored' = stored
            /\ (tPc'[c] = "save") => tPc[c] \in {"inflight", "save"}
            /\ (tPc[c] = "save" /\ tPc'[c] # "save")
                  => /\ tPc'[c] = "setcache"
                     /\ stored' \in {stored, cred[c]}
                     /\ cache' = cache /\ cred'[c] = cred[c]
            /\ (tPc[c] = "setcache" /\ tPc'[c] # "setcache")
                  => /\ tPc'[c] = "returned"
                     /\ ret'[c] = [token |-> cred[c].AccessToken, err |-> ""]
                     /\ cache'.token = cred[c].AccessToken
                     /\ stored' = stored
       /\ (stored' # stored) => \E w \in Callers : tPc[w] = "save" /\ stored' = cred[w]
       /\ (cache' # cache) => \E w \in Callers : tPc[w] = "setcache"]_vars

\* C15 witness: the only caller so far refreshed, its persistence attempt
\* failed (the stored key still holds the old token), and it cached and
\* returned the new token all the same.
Wit_C15_SaveFailedTokenCached ==
    \E c, d \in Callers :
        /\ c # d /\ tPc[d] = "new"
        /\ tPc[c] = "returned" /\ ret[c] = [token |-> "at1", err |-> ""]
        /\ cred[c].AccessToken = "at1"
        /\ cache.token = "at1"
        /\ stored.AccessToken = "at0"


MinOf(a, b) == IF a <= b THEN a ELSE b

\* C16 as claimed: whenever GetToken writes the cache, the time-to-live is
\* the lesser of the ceiling and the remaining lifetime of the token, so the
\* entry does not outlive the token.
Claim_C16_TTLIsLesserOfCeilingAndLifetime ==
    [][\A c \in Callers :
        (tPc[c] = "setcache" /\ tPc'[c] = "returned" /\ cred[c].AccessToken # "")
            => /\ cache'.expires - now = MinOf(CacheCeiling, cred[c].ExpiresAt - now)
               /\ cache'.expires <= cred[c].ExpiresAt]_vars


\* The credential of caller c is Invalid: its latest Refresh was answered with
\* a code that must not be retried (and, by C2, the call returned its error).
Invalid(c) == thist.fatalAt[c] # 0

\* C36: the state Invalid of a credential is terminal: a later GetToken call
\* on it sends no refresh request and returns no token, so it is refused with
\* an error before the cache lookup (the failure is recorded nowhere and the
\* call goes on to the cache and to a new Refresh: this does not hold).
Claim_C36_InvalidIsTerminal ==
    [][\A c \in Callers :
          (Invalid(c) /\ GetTokenEnter(c))
              => tPc'[c] = "returned" /\ ret'[c].token = "" /\ ret'[c].err # ""]_vars

\* A call that got to the cache lookup returns the cached token, or sends a
\* refresh request, or goes on to cache and return its own token: it never
\* ends there with an error.
PastEntryMeansTokenOrRefresh ==
    [][\A c \in Callers :
          /\ (tPc[c] = "cache" /\ tPc'[c] # "cache")
                => \/ tPc'[c] = "returned" /\ ret'[c] = [token |-> GetCache(now), err |-> ""]
                   \/ tPc'[c] = "inflight" /\ thist'.reqs[c] = 1
                   \/ tPc'[c] = "setcache"
          /\ (tPc[c] = "setcache" /\ tPc'[c] # "setcache")
                => tPc'[c] = "returned" /\ ret'[c] = [token |-> cred[c].AccessToken, err |-> ""]]_vars

\* The call in which the Refresh failed ends there, with an error and with
\* the credential, the cache and the channel key as they were.
InvalidEndsTheCallOnly ==
    [][\A c \in Callers :
          (~Invalid(c) /\ thist'.fatalAt[c] # 0)
              => /\ tPc'[c] = "returned" /\ ret'[c].token = "" /\ ret'[c].err # ""
                 /\ cred'[c] = cred[c] /\ cache' = cache /\ stored' = stored]_vars

\* C38: GetToken never returns an empty token together with a nil error and
\* never caches an empty token: after a Refresh that reported success the
\* credential's access token is not empty, also when the token endpoint
\* answered 200 with a body without access_token (Refresh assigns the parsed
\* access_token unchecked: this does not hold).
Claim_C38_NeverAnEmptyToken ==
    /\ \A c \in Callers :
          /\ (tPc[c] = "returned" /\ ret[c].err = "") => ret[c].token # ""
          /\ (tPc[c] = "save") => cred[c].AccessToken # ""
    /\ cache = NoEntry \/ cache.token # ""

\* An empty token comes from nowhere else: a call made before any Refresh
\* emptied a credential returns a token that is not empty, or an error.
EmptyTokenOnlyAfterRefresh ==
    [][\A c \in Callers :
          (tPc[c] # "returned" /\ tPc'[c] = "returned" /\ ret'[c].err = "" /\ ret'[c].token = "")
              => \/ cred[c].AccessToken = "" /\ tPc[c] = "setcache"
                 \/ cache.token = "" /\ tPc[c] = "cache"]_vars

\* The token endpoint of the two-refresh runs hands out up to MaxRefreshes
\* access tokens, so that two callers can each obtain one of their own.
NextRefreshed ==
    IF thist.issued < MaxRefreshes THEN IssuedTokens[thist.issued + 1] ELSE ""

NextTokenRace ==
    \/ \E c \in Callers : Create(c)
    \/ \E c \in Callers : GetTokenEnter(c)
    \/ \E c \in Callers : GetTokenCacheHit(c)
    \/ \E c \in Callers : GetTokenCacheMiss(c)
    \/ \E c \in Callers : \E r \in FailureResponses \cup OkResponses(NextRefreshed) :
            RefreshResponse(c, r)
    \/ \E c \in Callers : RefreshRetry(c)
    \/ \E c \in Callers : \E ok \in BOOLEAN : SaveCredentials(c, ok)
    \/ \E c \in Callers : GetTokenSetCache(c)
    \/ \E c \in Callers : \E body \in ErrorBodies(c) : UpstreamError(c, body)
    \/ Tick

SpecTokenRace == InitToken /\ [][NextTokenRace]_vars

\* No GetToken call is in progress.
Quiescent == \A c \in Callers : tPc[c] \in {"new", "ready", "returned"}

\* The access token of the most recent refresh that produced one, the
\* configured token when there was none.
LatestRefreshed ==
    IF thist.issued = 0 THEN "at0" ELSE IssuedTokens[thist.issued]

\* The access token of the credential most recently handed to persistence,
\* the configured token when none was.
LastHanded == IF thist.handed = "none" THEN "at0" ELSE thist.handed

\* C37: after any interleaving of concurrent GetToken calls, whenever the
\* cache holds a token it is the access token of the most recent successful
\* refresh (the configured token when there was none) and equals the access
\* token of the credential most recently handed to persistence (the callers
\* refresh, save and cache without a lock, so the slower of two refreshers
\* overwrites the newer token: this does not hold).
Claim_C37_CacheHoldsLatestToken ==
    (Quiescent /\ GetCache(now) # "")
        => /\ cache.token = LatestRefreshed
           /\ cache.token = LastHanded

\* With one caller at a time the claim holds: a call that refreshed leaves
\* its own token in the cache and as the one handed to persistence.
OneCallerCachesItsOwnToken ==
    [][\A c \in Callers :
          (tPc[c] = "setcache" /\ tPc'[c] = "returned")
              => /\ cache'.token = cred[c].AccessToken
                 /\ ret'[c].token = cred[c].AccessToken]_vars

\* ========================================================================
\* Custom parameters: ApplyCustomParams, removeNestedParam, DeepMergeMap
\* (providers/base). A Go map is a reference: the model keeps the maps in a
\* heap, and a map stored as a value is stored by its address.
\* ========================================================================

MaxMerges == 2

ModelName == "m"

\* A value of map[string]interface{}: a string, a bool, a list of strings,
\* or a map (by address).
Str(x) == [t |-> "str", s |-> x, m |-> 0, l |-> <<>>]

Bool(x) == [t |-> "bool", s |-> IF x THEN "true" ELSE "false", m |-> 0, l |-> <<>>]

List(x) == [t |-> "list", s |-> "", m |-> 0, l |-> x]

Ref(a) == [t |-> "map", s |-> "", m |-> a, l |-> <<>>]

EmptyMap == [k \in {} |-> Str("")]

\* requestMap[k] = v
Put(obj, k, v) == [x \in (DOMAIN obj) \cup {k} |-> IF x = k THEN v ELSE obj[x]]

\* delete(requestMap, k)
Del(obj, k) == [x \in (DOMAIN obj) \ {k} |-> obj[x]]

\* v, ok := m[k].(bool); ok && v
IsTrue(obj, k) == k \in DOMAIN obj /\ obj[k] = Bool(TRUE)

\* _, ok := m[k].(map[string]interface{})
IsMap(obj, k) == k \in DOMAIN obj /\ obj[k].t = "map"

\* The keys of the model, in the order the loops of the model visit them. Go
\* visits a map in an order of its own; each round of the loops below writes
\* under its own key only, so the order does not show in the maps built.
KeyOrder == <<"remove_params", "overwrite", "per_model", "pre_add", "stream",
              "a", "a.b", "b", "c", "d", "e", "m", "n", "x">>

KeysOf(obj) == SelectSeq(KeyOrder, LAMBDA k : k \in DOMAIN obj)

\* strings.Split(paramPath, ".")
SplitPath(p) == IF p = "a.b" THEN <<"a", "b">> ELSE <<p>>

\* The value a map holds, nested maps included, as the set of its entries by
\* path: what json.Marshal would show of it.
RECURSIVE FlatFrom(_, _, _)
FlatFrom(h, a, prefix) ==
    UNION {
        LET v == h[a][k]
            here == {[path |-> Append(prefix, k), t |-> v.t, s |-> v.s, l |-> v.l]}
        IN  IF v.t = "map" THEN here \cup FlatFrom(h, v.m, Append(prefix, k)) ELSE here
        : k \in DOMAIN h[a] }

Flat(h, a) == FlatFrom(h, a, <<>>)

\* A removal that deletes the final segment from the outermost map without
\* walking down.
removeWithoutWalk(h, cur, parts, i) == [h EXCEPT ![cur] = Del(@, parts[Len(parts)])]

\* removeNestedParam, the walk down the nested maps: parts[i..] under the map
\* at address cur.
RECURSIVE removeWalk(_, _, _, _)
removeWalk(h, cur, parts, i) ==
    IF i = Len(parts)
    THEN [h EXCEPT ![cur] = Del(@, parts[i])]
    ELSE IF IsMap(h[cur], parts[i])
         THEN removeWalk(h, h[cur][parts[i]].m, parts, i + 1)
         ELSE h

removeNestedParam(h, requestMap, paramPath) ==
    removeWalk(h, requestMap, SplitPath(paramPath), 1)

\* for _, param := range paramsList { removeNestedParam(requestMap, paramName) }
RECURSIVE removeAll(_, _, _)
removeAll(h, requestMap, paramsList) ==
    IF paramsList = <<>> THEN h
    ELSE removeAll(removeNestedParam(h, requestMap, Head(paramsList)), requestMap,
                   Tail(paramsList))

\* DeepMergeMap(existing, new): the heap after the call and the address of
\* the map it returns. The result is a map the call allocates.
RECURSIVE DeepMergeMap(_, _, _), deepMergeKeys(_, _, _, _)
DeepMergeMap(h, existing, new) ==
    deepMergeKeys(Append(h, h[existing]), Len(h) + 1, new, KeysOf(h[new]))

deepMergeKeys(h, result, new, ks) ==
    IF ks = <<>> THEN [h |-> h, a |-> result]
    ELSE LET k == Head(ks)
             newValue == h[new][k]
         IN  IF IsMap(h[result], k) /\ newValue.t = "map"
             THEN LET sub == DeepMergeMap(h, h[result][k].m, newValue.m)
                  IN  deepMergeKeys([sub.h EXCEPT ![result] = Put(@, k, Ref(sub.a))],
                                    result, new, Tail(ks))
             ELSE deepMergeKeys([h EXCEPT ![result] = Put(@, k, newValue)],
                                result, new, Tail(ks))

\* The keys the add loop of ApplyCustomParams passes over.
SkippedKeys == {"stream", "overwrite", "per_model", "pre_add"}

\* An add loop that writes every key as overwrite mode does, whatever the
\* mode.
RECURSIVE addKeysAlwaysReplace(_, _, _, _, _)
addKeysAlwaysReplace(h, requestMap, customParamsModel, shouldOverwrite, ks) ==
    IF ks = <<>> THEN h
    ELSE IF Head(ks) \in SkippedKeys
         THEN addKeysAlwaysReplace(h, requestMap, customParamsModel, shouldOverwrite, Tail(ks))
         ELSE addKeysAlwaysReplace(
                  [h EXCEPT ![requestMap] = Put(@, Head(ks), h[customParamsModel][Head(ks)])],
                  requestMap, customParamsModel, shouldOverwrite, Tail(ks))

\* An add loop that writes only the keys the body lacks, whatever the mode.
RECURSIVE addKeysOnlyAbsent(_, _, _, _, _)
addKeysOnlyAbsent(h, requestMap, customParamsModel, shouldOverwrite, ks) ==
    IF ks = <<>> THEN h
    ELSE IF Head(ks) \in SkippedKeys \/ Head(ks) \in DOMAIN h[requestMap]
         THEN addKeysOnlyAbsent(h, requestMap, customParamsModel, shouldOverwrite, Tail(ks))
         ELSE addKeysOnlyAbsent(
                  [h EXCEPT ![requestMap] = Put(@, Head(ks), h[customParamsModel][Head(ks)])],
                  requestMap, customParamsModel, shouldOverwrite, Tail(ks))

\* The add loop of ApplyCustomParams over the keys ks of customParamsModel.
RECURSIVE addKeys(_, _, _, _, _)
addKeys(h, requestMap, customParamsModel, shouldOverwrite, ks) ==
    IF ks = <<>> THEN h
    ELSE LET key == Head(ks)
             value == h[customParamsModel][key]
             rest == Tail(ks)
         IN  IF key \in SkippedKeys
             THEN addKeys(h, requestMap, customParamsModel, shouldOverwrite, rest)
             ELSE IF shouldOverwrite
             THEN addKeys([h EXCEPT ![requestMap] = Put(@, key, value)],
                          requestMap, customParamsModel, shouldOverwrite, rest)
             ELSE IF key \in DOMAIN h[requestMap]
             THEN IF IsMap(h[requestMap], key) /\ value.t = "map"
                  THEN LET merged == DeepMergeMap(h, h[requestMap][key].m, value.m)
                       IN  addKeys([merged.h EXCEPT ![requestMap] = Put(@, key, Ref(merged.a))],
                                   requestMap, customParamsModel, shouldOverwrite, rest)
                  ELSE addKeys(h, requestMap, customParamsModel, shouldOverwrite, rest)
             ELSE addKeys([h EXCEPT ![requestMap] = Put(@, key, value)],
                          requestMap, customParamsModel, shouldOverwrite, rest)

\* An early return for the empty parameter set only.
ReturnsEarlyOnlyWhenEmpty(h, customParams, skipPreAddCheck) == DOMAIN h[customParams] = {}

\* ApplyCustomParams returns before touching the body: no parameters, or
\* pre_add is set and the caller did not ask to skip that check.
ReturnsEarly(h, customParams, skipPreAddCheck) ==
    \/ DOMAIN h[customParams] = {}
    \/ ~skipPreAddCheck /\ IsTrue(h[customParams], "pre_add")

\* A choice of customParamsModel that takes the whole set, per_model or not.
ModelParamsWholeSet(h, customParams, modelName) == [h |-> h, a |-> customParams]

\* customParamsModel as ApplyCustomParams picks it: the heap and the address
\* of the map. Without per_model it is customParams itself; with per_model it
\* is the map under the model's name, or, when there is none, a fresh empty
\* map, which the call allocates at the end of the heap.
ModelParams(h, customParams, modelName) ==
    IF ~IsTrue(h[customParams], "per_model") THEN [h |-> h, a |-> customParams]
    ELSE IF IsMap(h[customParams], modelName)
         THEN [h |-> h, a |-> h[customParams][modelName].m]
         ELSE [h |-> Append(h, EmptyMap), a |-> Len(h) + 1]

\* The remove_params block of ApplyCustomParams.
applyRemovals(h, requestMap, customParamsModel) ==
    LET cpm == h[customParamsModel]
    IN  IF "remove_params" \in DOMAIN cpm /\ cpm["remove_params"].t = "list"
        THEN removeAll(h, requestMap, cpm["remove_params"].l)
        ELSE h

\* ApplyCustomParams between its remove_params block and its add loop: the
\* heap and the address of customParamsModel.
AfterRemovals(h, requestMap, customParams, modelName) ==
    LET mp == ModelParams(h, customParams, modelName)
    IN  [h |-> applyRemovals(mp.h, requestMap, mp.a), a |-> mp.a]

\* ApplyCustomParams: the heap after the call; the map returned is requestMap.
ApplyCustomParams(h, requestMap, customParams, modelName, skipPreAddCheck) ==
    IF ReturnsEarly(h, customParams, skipPreAddCheck) THEN h
    ELSE LET shouldOverwrite == IsTrue(h[customParams], "overwrite")
             cut == AfterRemovals(h, requestMap, customParams, modelName)
         IN  addKeys(cut.h, requestMap, cut.a, shouldOverwrite, KeysOf(cut.h[cut.a]))

\* ------------------------------------------------------------------------
\* The custom-parameter machine: one parameter set, parsed once, applied to
\* request bodies
\* ------------------------------------------------------------------------

\* A map literal: the map holding the given <<key, value>> pairs.
RECURSIVE MapOf(_)
MapOf(pairs) ==
    IF pairs = <<>> THEN EmptyMap
    ELSE Put(MapOf(Tail(pairs)), Head(pairs)[1], Head(pairs)[2])

\* What json.Unmarshal builds from a document: its maps, the outermost at
\* address 1 and a nested one at the address its parent names.
ParamSets ==
    { \* {"remove_params": ["a.b"], "a": {"b": "v"}}
      << MapOf(<< <<"remove_params", List(<<"a.b">>)>>, <<"a", Ref(2)>> >>),
         MapOf(<< <<"b", Str("v")>> >>) >>,
      \* {"remove_params": ["a.b"], "a.b": "v"}
      << MapOf(<< <<"remove_params", List(<<"a.b">>)>>, <<"a.b", Str("v")>> >>) >>,
      \* {"overwrite": true, "remove_params": ["a.b"], "a": {"b": "v"}}
      << MapOf(<< <<"overwrite", Bool(TRUE)>>, <<"remove_params", List(<<"a.b">>)>>,
                  <<"a", Ref(2)>> >>),
         MapOf(<< <<"b", Str("v")>> >>) >>,
      \* {"pre_add": true, "overwrite": true, "remove_params": ["x"], "x": "v"}
      << MapOf(<< <<"pre_add", Bool(TRUE)>>, <<"overwrite", Bool(TRUE)>>,
                  <<"remove_params", List(<<"x">>)>>, <<"x", Str("v")>> >>) >>,
      \* {"per_model": true, "x": "v", "m": {"remove_params": ["a.b"], "a": {"b": "v"}}}
      << MapOf(<< <<"per_model", Bool(TRUE)>>, <<"x", Str("v")>>, <<"m", Ref(2)>> >>),
         MapOf(<< <<"remove_params", List(<<"a.b">>)>>, <<"a", Ref(3)>> >>),
         MapOf(<< <<"b", Str("v")>> >>) >>,
      \* {"per_model": true, "x": "v", "n": {"c": "v"}}
      << MapOf(<< <<"per_model", Bool(TRUE)>>, <<"x", Str("v")>>, <<"n", Ref(2)>> >>),
         MapOf(<< <<"c", Str("v")>> >>) >>,
      \* {"per_model": true, "m": "v", "x": "v"}
      << MapOf(<< <<"per_model", Bool(TRUE)>>, <<"m", Str("v")>>, <<"x", Str("v")>> >>) >>,
      \* {"overwrite": true, "per_model": true, "c": "v",
      \*  "m": {"a": {"b": "v"}, "x": "v"}}
      << MapOf(<< <<"overwrite", Bool(TRUE)>>, <<"per_model", Bool(TRUE)>>,
                  <<"c", Str("v")>>, <<"m", Ref(2)>> >>),
         MapOf(<< <<"a", Ref(3)>>, <<"x", Str("v")>> >>),
         MapOf(<< <<"b", Str("v")>> >>) >>,
      \* {"a": {"b": "v", "c": {"d": "v"}}}
      << MapOf(<< <<"a", Ref(2)>> >>),
         MapOf(<< <<"b", Str("v")>>, <<"c", Ref(3)>> >>),
         MapOf(<< <<"d", Str("v")>> >>) >>,
      \* {"stream": true, "x": "v", "a": {"c": "v"}}
      << MapOf(<< <<"stream", Bool(TRUE)>>, <<"x", Str("v")>>, <<"a", Ref(2)>> >>),
         MapOf(<< <<"c", Str("v")>> >>) >>,
      \* {}
      << EmptyMap >> }

Bodies ==
    { \* {}
      << EmptyMap >>,
      \* {"a": {"b": "w"}}
      << MapOf(<< <<"a", Ref(2)>> >>), MapOf(<< <<"b", Str("w")>> >>) >>,
      \* {"a": "w"}
      << MapOf(<< <<"a", Str("w")>> >>) >>,
      \* {"x": "w", "stream": true}
      << MapOf(<< <<"x", Str("w")>>, <<"stream", Bool(TRUE)>> >>) >>,
      \* {"a": {"b": "w", "c": "w"}, "x": "w"}
      << MapOf(<< <<"a", Ref(2)>>, <<"x", Str("w")>> >>),
         MapOf(<< <<"b", Str("w")>>, <<"c", Str("w")>> >>) >>,
      \* {"a": {"b": {"d": "w"}, "c": {"d": "w", "e": "w"}}}
      << MapOf(<< <<"a", Ref(2)>> >>),
         MapOf(<< <<"b", Ref(3)>>, <<"c", Ref(4)>> >>),
         MapOf(<< <<"d", Str("w")>> >>),
         MapOf(<< <<"d", Str("w")>>, <<"e", Str("w")>> >>) >> }

\* The maps of a document placed in the heap after off maps.
Rebase(doc, off) ==
    [i \in 1..Len(doc) |->
        [k \in DOMAIN doc[i] |->
            IF doc[i][k].t = "map" THEN Ref(doc[i][k].m + off) ELSE doc[i][k]]]

\* customParamsModel as ApplyCustomParams picks it: its address, 0 for the
\* empty map the per-model branch falls back to.
EffectiveParams(h, customParams) ==
    IF ~IsTrue(h[customParams], "per_model") THEN customParams
    ELSE IF IsMap(h[customParams], ModelName) THEN h[customParams][ModelName].m
    ELSE 0

\* The body holds a nested map under a key the parameter set adds a nested
\* map to.
Collides(h, body, customParams) ==
    LET e == EffectiveParams(h, customParams)
    IN  e # 0 /\ \E k \in DOMAIN h[e] \ SkippedKeys : IsMap(h[e], k) /\ IsMap(h[body], k)

MergeInit ==
    \E P \in ParamSets, B \in Bodies, skip \in BOOLEAN :
        /\ mHeap = P \o Rebase(B, Len(P))
        /\ mParams = 1
        /\ mBody = Len(P) + 1
        /\ mSkip = skip
        /\ mMerges = 0
        /\ mCount = 0
        /\ mOnce = {}
        /\ mPre = [ran |-> FALSE, body |-> {}, params |-> {}, eff |-> {}, cut |-> {}, effCut |-> {}]
        /\ mParams0 = Flat(P, 1)
        /\ mCollides = Collides(P \o Rebase(B, Len(P)), Len(P) + 1, 1)

\* One call of ApplyCustomParams on the current body (MergeCustomParams when
\* skipPreAddCheck is false).
MergeCustomParams ==
    /\ mBody # 0
    /\ mMerges < MaxMerges
    /\ mHeap' = ApplyCustomParams(mHeap, mBody, mParams, ModelName, mSkip)
    /\ mMerges' = mMerges + 1
    /\ mCount' = mCount + 1
    /\ mOnce' = IF mCount = 0 THEN Flat(mHeap', mBody) ELSE mOnce
    /\ mPre' = [ran |-> ~ReturnsEarly(mHeap, mParams, mSkip),
                body |-> Flat(mHeap, mBody),
                params |-> Flat(mHeap, mParams),
                eff |-> IF EffectiveParams(mHeap, mParams) = 0 THEN {}
                        ELSE Flat(mHeap, EffectiveParams(mHeap, mParams)),
                cut |-> Flat(AfterRemovals(mHeap, mBody, mParams, ModelName).h, mBody),
                effCut |-> LET c == AfterRemovals(mHeap, mBody, mParams, ModelName)
                           IN  Flat(c.h, c.a)]
    /\ UNCHANGED <<mBody, mParams, mSkip, mParams0, mCollides>>
    /\ UNCHANGED <<strVars, relVars, tokVars, hdrVars, reqVars, oauVars>>

\* The holder of the parsed parameter set turns to another body: a body of
\* its own maps, the same parameter-set object.
NewRequest(B, skip) ==
    /\ mBody # 0
    /\ mCount >= 1
    /\ mMerges < MaxMerges
    /\ mHeap' = mHeap \o Rebase(B, Len(mHeap))
    /\ mBody' = Len(mHeap) + 1
    /\ mSkip' = skip
    /\ mCount' = 0
    /\ mOnce' = {}
    /\ mPre' = [ran |-> FALSE, body |-> {}, params |-> {}, eff |-> {}, cut |-> {}, effCut |-> {}]
    /\ mCollides' = Collides(mHeap', mBody', mParams)
    /\ UNCHANGED <<mParams, mMerges, mParams0>>
    /\ UNCHANGED <<strVars, relVars, tokVars, hdrVars, reqVars, oauVars>>

InitMerge == MergeInit /\ StreamOff /\ RelayOff /\ TokenOff /\ HeadersOff /\ RequestOff /\ OAuthOff

NextMerge ==
    \/ MergeCustomParams
    \/ \E B \in Bodies, skip \in BOOLEAN : NewRequest(B, skip)

SpecMerge == InitMerge /\ [][NextMerge]_vars

\* ------------------------------------------------------------------------
\* Claims on the custom-parameter machine (SpecMerge)
\* ------------------------------------------------------------------------

NonOverwrite == ~IsTrue(mHeap[mParams], "overwrite")

\* C17 as claimed: applying the same non-overwrite parameter set twice in a
\* row to a body, the second time to the result of the first and with the
\* same parameter-set object, gives the body that applying it once gave, for
\* any body without colliding nested maps.
Claim_C17_SecondApplicationChangesNothing ==
    (mCount >= 2 /\ NonOverwrite /\ ~mCollides) => Flat(mHeap, mBody) = mOnce

\* The latest call ran with overwrite set.
RanOverwrite ==
    [path |-> <<"overwrite">>, t |-> "bool", s |-> "true", l |-> <<>>] \in mPre.params

\* The latest call ran with remove_params naming the path "a.b".
RanRemovingAB ==
    \E e \in mPre.eff :
        /\ e.path = <<"remove_params">> /\ e.t = "list"
        /\ \E i \in 1..Len(e.l) : e.l[i] = "a.b"

\* The values the latest call had to add at a.b: the entry b of a nested map
\* a, or the value of a key spelled "a.b".
AddedAtAB == {e \in mPre.eff : e.path \in {<<"a", "b">>, <<"a.b">>} /\ e.t # "map"}

\* The body as it was before the call does not stand in the way of the
\* addition: the rule for keys the body already holds keeps the body's value
\* unless overwrite is set or both values are maps.
NotKeptBack(e) ==
    \/ RanOverwrite
    \/ \A f \in mPre.body : f.path = <<e.path[1]>> => (f.t = "map" /\ Len(e.path) = 2)

\* C18 as claimed: when the parameter set both removes the path "a.b" and
\* adds a value at a.b, the body the merge returns holds the added value.
Claim_C18_RemovalSparesAddedKey ==
    (mPre.ran /\ RanRemovingAB)
        => \A e \in AddedAtAB : NotKeptBack(e) => e \in Flat(mHeap, mBody)

\* The same for the first call made with a parameter set, before any of its
\* maps is shared with a body.
FirstMergeSparesAddedKey ==
    (mPre.ran /\ RanRemovingAB /\ mMerges = 1)
        => \A e \in AddedAtAB : NotKeptBack(e) => e \in Flat(mHeap, mBody)

\* DeepMergeMap, called on any two maps alive, returns a map that was not
\* there before and leaves every map that was there as it was.
DeepMergeLeavesArguments ==
    \A existing, new \in 1..Len(mHeap) :
        LET r == DeepMergeMap(mHeap, existing, new)
        IN  /\ r.a > Len(mHeap)
            /\ \A i \in 1..Len(mHeap) : r.h[i] = mHeap[i]

\* The parameter set, nested maps included, is as it was parsed.
ParamsAsParsed == Flat(mHeap, mParams) = mParams0

\* C19 as claimed: a merge never mutates its inputs. DeepMergeMap leaves both
\* arguments unchanged and returns a newly allocated map, and after any
\* sequence of ApplyCustomParams calls on any bodies the parameter set,
\* nested maps included, is unchanged.
Claim_C19_MergeLeavesInputsUnchanged ==
    DeepMergeLeavesArguments /\ ParamsAsParsed

\* The four control keys of a parameter set.
ReservedKeys == {"overwrite", "per_model", "pre_add", "remove_params"}

\* What a flattened map holds directly under key k.
TopLevel(flat, k) == {e \in flat : e.path = <<k>>}

\* C20 as claimed: ApplyCustomParams writes none of the four reserved control
\* keys into the body: after a merge the body holds such a key only if it
\* held it before the merge, with the value it had.
Claim_C20_ReservedKeysNeverWritten ==
    mCount >= 1
        => \A k \in ReservedKeys :
               TopLevel(Flat(mHeap, mBody), k) \subseteq TopLevel(mPre.body, k)

\* The same for the three control keys the add loop passes over.
SkippedControlKeysNeverWritten ==
    mCount >= 1
        => \A k \in ReservedKeys \cap SkippedKeys :
               TopLevel(Flat(mHeap, mBody), k) \subseteq TopLevel(mPre.body, k)

\* What a flattened map holds under its key k, the entry of k included.
Sub(flat, k) == {e \in flat : e.path[1] = k}

EntryAt(flat, q) == \E e \in flat : e.path = q

MapAt(flat, q) == \E e \in flat : e.path = q /\ e.t = "map"

\* The deep merge of two values as the contract words it: everything of the
\* new value, and of the existing value what the new value does not stand at
\* or above, two maps at one path being merged key by key.
DeepMerged(existing, new) ==
    new \cup {e \in existing :
                \A i \in 1..Len(e.path) :
                    LET q == SubSeq(e.path, 1, i)
                    IN  EntryAt(new, q) => (MapAt(new, q) /\ MapAt(existing, q))}

\* The keys the add loop of the latest call applied.
AppliedKeys == {e.path[1] : e \in mPre.effCut} \ SkippedKeys

\* C21: in non-overwrite mode, for each applied key: a key the body lacks is
\* inserted with the new value; when the body's value and the new value are
\* both maps the body gets their deep merge; in every other case the body's
\* value stays as it was.
Thm_C21_NonOverwriteKeepsMergesOrInserts ==
    (mPre.ran /\ ~RanOverwrite)
        => \A k \in AppliedKeys :
               LET had == Sub(mPre.cut, k)
                   new == Sub(mPre.effCut, k)
                   has == Sub(Flat(mHeap, mBody), k)
               IN  IF had = {} THEN has = new
                   ELSE IF MapAt(had, <<k>>) /\ MapAt(new, <<k>>)
                        THEN has = DeepMerged(had, new)
                        ELSE has = had

\* {"a": {"b": "v", "c": {"d": "v"}}} merged into
\* {"a": {"b": {"d": "w"}, "c": {"d": "w", "e": "w"}}}: the leaf b replaces
\* the map, c.d takes the new value and c.e stays.
Wit_C21_NestedMapsMerged ==
    /\ mPre.ran /\ ~RanOverwrite
    /\ [path |-> <<"a", "b", "d">>, t |-> "str", s |-> "w", l |-> <<>>] \in mPre.cut
    /\ Sub(Flat(mHeap, mBody), "a") =
           { [path |-> <<"a">>, t |-> "map", s |-> "", l |-> <<>>],
             [path |-> <<"a", "b">>, t |-> "str", s |-> "v", l |-> <<>>],
             [path |-> <<"a", "c">>, t |-> "map", s |-> "", l |-> <<>>],
             [path |-> <<"a", "c", "d">>, t |-> "str", s |-> "v", l |-> <<>>],
             [path |-> <<"a", "c", "e">>, t |-> "str", s |-> "w", l |-> <<>>] }

\* C22: when overwrite is true, every applied key of the effective parameter
\* set (the model's sub-map when per_model is true) replaces the body's value
\* for that key, whatever the body held.
Thm_C22_OverwriteReplacesEveryKey ==
    (mPre.ran /\ RanOverwrite)
        => \A k \in AppliedKeys : Sub(Flat(mHeap, mBody), k) = Sub(mPre.effCut, k)

\* The per-model set with overwrite, applied to {"a": "w"}: the string under
\* a gave way to the map {"b": "v"}.
Wit_C22_StringReplacedByMap ==
    /\ mPre.ran /\ RanOverwrite
    /\ [path |-> <<"per_model">>, t |-> "bool", s |-> "true", l |-> <<>>] \in mPre.params
    /\ [path |-> <<"a">>, t |-> "str", s |-> "w", l |-> <<>>] \in mPre.cut
    /\ Sub(Flat(mHeap, mBody), "a") =
           { [path |-> <<"a">>, t |-> "map", s |-> "", l |-> <<>>],
             [path |-> <<"a", "b">>, t |-> "str", s |-> "v", l |-> <<>>] }

IsPrefix(q, p) == Len(q) <= Len(p) /\ SubSeq(p, 1, Len(q)) = q

\* What the contract says one remove_params entry does to a body: with every
\* segment before the last leading to a map, the final segment goes, with
\* all it holds; with one of them missing or no map, nothing changes.
RemovedPath(flat, parts) ==
    IF \A i \in 1..(Len(parts) - 1) : MapAt(flat, SubSeq(parts, 1, i))
    THEN {e \in flat : ~IsPrefix(parts, e.path)}
    ELSE flat

RECURSIVE RemovedPaths(_, _)
RemovedPaths(flat, paths) ==
    IF paths = <<>> THEN flat
    ELSE RemovedPaths(RemovedPath(flat, SplitPath(Head(paths))), Tail(paths))

\* The remove_params list the latest call ran with.
RanRemoving ==
    IF \E e \in mPre.eff : e.path = <<"remove_params">> /\ e.t = "list"
    THEN (CHOOSE e \in mPre.eff : e.path = <<"remove_params">> /\ e.t = "list").l
    ELSE <<>>

\* C23: remove_params is processed before any key is added. A one-segment
\* path deletes the top-level key, a longer path walks the nested maps and
\* deletes the final segment only, and an entry whose walk meets a missing
\* segment or a value that is no map leaves the body unchanged. The add loop
\* works on the body the removals left: a key it does not apply is as the
\* removals left it, and a key it applies is in the body afterwards.
Thm_C23_RemovalsFirstAndByPath ==
    mPre.ran
        => /\ mPre.cut = RemovedPaths(mPre.body, RanRemoving)
           /\ \A k \in {e.path[1] : e \in mPre.cut} \ AppliedKeys :
                  Sub(Flat(mHeap, mBody), k) = Sub(mPre.cut, k)
           /\ \A k \in AppliedKeys : EntryAt(Flat(mHeap, mBody), <<k>>)

\* "a.b" removed from {"a": {"b": "w", "c": "w"}, "x": "w"}: b went, c and x
\* stayed.
Wit_C23_FinalSegmentDeleted ==
    /\ mPre.ran /\ RanRemoving = <<"a.b">>
    /\ [path |-> <<"a", "b">>, t |-> "str", s |-> "w", l |-> <<>>] \in mPre.body
    /\ [path |-> <<"a", "b">>, t |-> "str", s |-> "w", l |-> <<>>] \notin mPre.cut
    /\ [path |-> <<"a", "c">>, t |-> "str", s |-> "w", l |-> <<>>] \in mPre.cut
    /\ [path |-> <<"x">>, t |-> "str", s |-> "w", l |-> <<>>] \in Flat(mHeap, mBody)

\* C24: when pre_add is true in the parameter set and the caller did not ask
\* to bypass the check (MergeCustomParams), the call changes no map at all:
\* the body it returns is the body it was given, with no key removed, added
\* or replaced.
Thm_C24_PreAddLeavesBodyUnchanged ==
    [][(mMerges' = mMerges + 1 /\ IsTrue(mHeap[mParams], "pre_add") /\ ~mSkip)
          => (mHeap' = mHeap /\ mBody' = mBody)]_vars

\* A pre_add set with overwrite and remove_params ["x"] went through
\* MergeCustomParams on {"x": "w", "stream": true}: x is still "w".
Wit_C24_PreAddSetSkipped ==
    /\ mCount >= 1 /\ ~mSkip /\ ~mPre.ran
    /\ IsTrue(mHeap[mParams], "pre_add") /\ IsTrue(mHeap[mParams], "overwrite")
    /\ RanRemoving = <<"x">>
    /\ [path |-> <<"x">>, t |-> "str", s |-> "w", l |-> <<>>] \in Flat(mHeap, mBody)

\* The latest call ran with per_model set.
RanPerModel ==
    [path |-> <<"per_model">>, t |-> "bool", s |-> "true", l |-> <<>>] \in mPre.params

\* C25: when per_model is true only the sub-map under the model's name is
\* used as the parameter set. With no such key, or with a value there that is
\* no map, the call returns the body unchanged; no top-level key of the
\* configuration, other models' sub-maps included, is added to the body; and
\* every key of the sub-map that the add loop applies is in the body
\* afterwards.
Thm_C25_PerModelUsesOnlyTheSubMap ==
    (mPre.ran /\ RanPerModel)
        => /\ ~MapAt(mPre.params, <<ModelName>>) => Flat(mHeap, mBody) = mPre.body
           /\ \A k \in {e.path[1] : e \in mPre.params} \ {e.path[1] : e \in mPre.eff} :
                  TopLevel(Flat(mHeap, mBody), k) \subseteq TopLevel(mPre.body, k)
           /\ \A k \in {e.path[1] : e \in mPre.eff} \ SkippedKeys :
                  EntryAt(Flat(mHeap, mBody), <<k>>)

\* {"per_model": true, "x": "v", "m": {"remove_params": ["a.b"],
\* "a": {"b": "v"}}} applied for model m: a.b arrived, x did not.
Wit_C25_SubMapAppliedTopLevelIgnored ==
    /\ mPre.ran /\ RanPerModel
    /\ [path |-> <<"x">>, t |-> "str", s |-> "v", l |-> <<>>] \in mPre.params
    /\ [path |-> <<"a", "b">>, t |-> "str", s |-> "v", l |-> <<>>] \in Flat(mHeap, mBody)
    /\ ~EntryAt(Flat(mHeap, mBody), <<"x">>)
    /\ ~EntryAt(Flat(mHeap, mBody), <<ModelName>>)

\* ========================================================================
\* The headers of an outbound Codex request: getResponsesRequest,
\* getRequestHeadersInternal, filterAndPassthroughClientHeaders
\* (providers/codex), CommonRequestHeaders (providers/base)
\* ========================================================================

\* http.Header.Get: the value, "" when the header is not there.
HeaderGet(hs, key) == IF key \in DOMAIN hs THEN hs[key] ELSE ""

\* allowedKeys of filterAndPassthroughClientHeaders.
AllowedKeys == <<"version", "openai-beta", "session_id", "x-session-id">>

\* The headers a client may have sent.
ClientHeaders ==
    { EmptyMap,
      MapOf(<< <<"Content-Type", "text/plain">>, <<"Accept", "*/*">>,
               <<"x-session-id", "s1">>, <<"Cookie", "c1">> >>) }

\* Channel.ModelHeaders, parsed: the operator's header overrides. NoOverrides
\* stands for a channel without any.
NoOverrides == MapOf(<< <<"(nil)", "">> >>)

ModelHeaders ==
    { NoOverrides,
      EmptyMap,
      MapOf(<< <<"Authorization", "Bearer op">> >>),
      MapOf(<< <<"Content-Type", "application/x-ndjson">>,
               <<"chatgpt-account-id", "acct-op">> >>),
      MapOf(<< <<"User-Agent", "ua-hdr">>, <<"Host", "h-op">>, <<"Accept", "a-op">> >>),
      MapOf(<< <<"x-session-id", "s-op">> >>) }

DefaultUserAgent == "codex_cli_rs/0.38.0 (Ubuntu 22.4.0; x86_64) WindowsTerminal"

\* for _, key := range allowedKeys { if value != "" { headers[key] = value } }
RECURSIVE passthrough(_, _, _)
passthrough(headers, client, keys) ==
    IF keys = <<>> THEN headers
    ELSE passthrough(IF HeaderGet(client, Head(keys)) # ""
                     THEN Put(headers, Head(keys), HeaderGet(client, Head(keys)))
                     ELSE headers,
                     client, Tail(keys))

\* for key, value := range customHeaders { headers[key] = value }
putAll(headers, customHeaders) ==
    [k \in (DOMAIN headers) \cup (DOMAIN customHeaders) |->
        IF k \in DOMAIN customHeaders THEN customHeaders[k] ELSE headers[k]]

\* CommonRequestHeaders(headers)
CommonRequestHeaders(headers, env) ==
    LET h1 == IF env.ctx
              THEN Put(Put(headers, "Content-Type", HeaderGet(env.client, "Content-Type")),
                       "Accept", HeaderGet(env.client, "Accept"))
              ELSE headers
        h2 == IF HeaderGet(h1, "Content-Type") = ""
              THEN Put(h1, "Content-Type", "application/json") ELSE h1
    IN  IF env.model # NoOverrides THEN putAll(h2, env.model) ELSE h2

\* "Set required headers" of getRequestHeadersInternal.
SetRequired(headers, env) ==
    LET h1 == Put(Put(headers, "Authorization", "Bearer " \o env.token),
                  "Content-Type", "application/json")
    IN  IF env.account # "" THEN Put(h1, "chatgpt-account-id", env.account) ELSE h1

\* applyDefaultHeaders(headers)
applyDefaultHeaders(headers, env) ==
    LET h1 == IF "Host" \in DOMAIN headers THEN headers ELSE Put(headers, "Host", "chatgpt.com")
        ua == IF env.userAgent # "" THEN env.userAgent ELSE DefaultUserAgent
    IN  IF "User-Agent" \notin DOMAIN h1
        THEN IF env.userAgent # ""
             THEN Put(h1, "User-Agent", ua)
             ELSE LET h2 == Put(h1, "User-Agent", ua)
                  IN  IF "Accept" \in DOMAIN h2 THEN h2 ELSE Put(h2, "Accept", "application/json")
        ELSE IF "Accept" \in DOMAIN h1 THEN h1 ELSE Put(h1, "Accept", "application/json")

HeadersInit ==
    \E ctx \in BOOLEAN, client \in ClientHeaders, model \in ModelHeaders,
       token \in {"", "at1"}, account \in {"", "acct-1"}, stream \in BOOLEAN,
       userAgent \in {"", "ua-other"} :
        /\ (~ctx => client = EmptyMap)
        /\ hPc = "new"
        /\ hEnv = [ctx |-> ctx, client |-> client, model |-> model, token |-> token,
                   account |-> account, stream |-> stream, userAgent |-> userAgent]
        /\ hHeaders = EmptyMap

\* getRequestHeadersInternal, "Pass through selected client headers".
FilterAndPassthroughClientHeaders ==
    /\ hPc = "new"
    /\ hHeaders' = IF hEnv.ctx THEN passthrough(hHeaders, hEnv.client, AllowedKeys)
                   ELSE hHeaders
    /\ hPc' = "passed"
    /\ UNCHANGED hEnv
    /\ UNCHANGED <<strVars, relVars, tokVars, mrgVars, reqVars, oauVars>>

\* getRequestHeadersInternal, "Apply channel ModelHeaders overrides".
ApplyCommonRequestHeaders ==
    /\ hPc = "passed"
    /\ hHeaders' = CommonRequestHeaders(hHeaders, hEnv)
    /\ hPc' = "common"
    /\ UNCHANGED hEnv
    /\ UNCHANGED <<strVars, relVars, tokVars, mrgVars, reqVars, oauVars>>

\* getRequestHeadersInternal from GetToken on: with no token the request is
\* not built (handleTokenError); with one, the required headers are set.
SetRequiredHeaders ==
    /\ hPc = "common"
    /\ IF hEnv.token = ""
       THEN hPc' = "failed" /\ hHeaders' = EmptyMap
       ELSE hPc' = "required" /\ hHeaders' = SetRequired(hHeaders, hEnv)
    /\ UNCHANGED hEnv
    /\ UNCHANGED <<strVars, relVars, tokVars, mrgVars, reqVars, oauVars>>

\* getResponsesRequest after the headers were built: the Codex defaults and
\* the Accept header of the request.
ApplyDefaultsAndAccept ==
    /\ hPc = "required"
    /\ hHeaders' = Put(applyDefaultHeaders(hHeaders, hEnv), "Accept",
                       IF hEnv.stream THEN "text/event-stream" ELSE "application/json")
    /\ hPc' = "built"
    /\ UNCHANGED hEnv
    /\ UNCHANGED <<strVars, relVars, tokVars, mrgVars, reqVars, oauVars>>

InitHeaders ==
    HeadersInit /\ StreamOff /\ RelayOff /\ TokenOff /\ MergeOff /\ RequestOff /\ OAuthOff

NextHeaders ==
    \/ FilterAndPassthroughClientHeaders
    \/ ApplyCommonRequestHeaders
    \/ SetRequiredHeaders
    \/ ApplyDefaultsAndAccept

SpecHeaders == InitHeaders /\ [][NextHeaders]_vars

\* The headers that must be on every request.
RequiredHeaders == {"Content-Type", "Authorization", "chatgpt-account-id"}

\* C26 as claimed: a required header receives its default only when the
\* client passthrough and the channel's overrides left that key unset; a
\* value they set is never replaced by a default.
Claim_C26_DefaultsNeverReplaceExplicitValue ==
    [][\A k \in RequiredHeaders :
          (hPc = "common" /\ hPc' = "required" /\ k \in DOMAIN hHeaders)
              => hHeaders'[k] = hHeaders[k]]_vars

\* The same for the defaults applyDefaultHeaders fills in.
CodexDefaultsNeverReplace ==
    [][\A k \in {"Host", "User-Agent"} :
          (hPc = "required" /\ hPc' = "built" /\ k \in DOMAIN hHeaders)
              => hHeaders'[k] = hHeaders[k]]_vars

\* ========================================================================
\* Request normalization: prepareCodexRequest, chatToResponsesRequest,
\* adaptCodexCLI, mergeSystemInputMessagesForCodex (providers/codex)
\* ========================================================================

MaxInput == 3

\* A text is a sequence of pieces: words and white space. "\n\n" is the
\* blank line the code joins texts with.
WhiteSpace == {" ", "\n", "\n\n"}

\* strings.TrimSpace(text)
RECURSIVE TrimLeft(_)
TrimLeft(t) == IF t # <<>> /\ Head(t) \in WhiteSpace THEN TrimLeft(Tail(t)) ELSE t

RECURSIVE TrimRight(_)
TrimRight(t) ==
    IF t # <<>> /\ t[Len(t)] \in WhiteSpace THEN TrimRight(SubSeq(t, 1, Len(t) - 1)) ELSE t

TrimText(t) == TrimRight(TrimLeft(t))

\* strings.Join(texts, sep)
RECURSIVE JoinTexts(_, _)
JoinTexts(texts, sep) ==
    IF texts = <<>> THEN <<>>
    ELSE IF Len(texts) = 1 THEN texts[1]
    ELSE texts[1] \o <<sep>> \o JoinTexts(Tail(texts), sep)

\* InputResponses.Content: a string, a list of content parts, or nil.
StringContent(t) == [kind |-> "string", text |-> t, parts |-> <<>>]

ListContent(ps) == [kind |-> "list", text |-> <<>>, parts |-> ps]

NilContent == [kind |-> "nil", text |-> <<>>, parts |-> <<>>]

Part(type, t) == [Type |-> type, Text |-> t]

InputItem(type, role, content) == [Type |-> type, Role |-> role, Content |-> content]

\* The items a caller may send.
InputItems ==
    { InputItem("message", "system", StringContent(<<"S1">>)),
      InputItem("", "developer",
                ListContent(<<Part("input_text", <<"S2">>), Part("input_image", <<>>)>>)),
      InputItem("message", "System", StringContent(<<" ">>)),
      InputItem("message", "user", StringContent(<<"U1">>)),
      InputItem("", "user",
                ListContent(<<Part("input_image", <<>>), Part("input_text", <<"U2">>)>>)),
      InputItem("message", "user", ListContent(<<Part("input_text", <<"U3">>)>>)),
      InputItem("message", "user", NilContent),
      InputItem("message", "assistant", StringContent(<<"A1">>)) }

RECURSIVE ListsUpTo(_)
ListsUpTo(n) ==
    IF n = 0 THEN {<<>>}
    ELSE ListsUpTo(n - 1) \cup {Append(l, i) : l \in {x \in ListsUpTo(n - 1) : Len(x) = n - 1},
                                               i \in InputItems}

\* strings.ToLower(strings.TrimSpace(input.Role))
LowerRole(role) == IF role = "System" THEN "system" ELSE role

\* input.ParseContent(): the parts of a list; none when the content is no
\* list (the callers treat an error and an empty list alike).
ParseContent(content) == IF content.kind = "list" THEN content.parts ELSE <<>>

IsTextPart(part) == part.Type \in {"input_text", "output_text", ""}

isSystemInputMessage(input) ==
    /\ ~(input.Type # "" /\ input.Type # "message")
    /\ LowerRole(input.Role) \in {"system", "developer"}

isMergeableInputMessage(input) ==
    /\ ~(input.Type # "" /\ input.Type # "message")
    /\ LowerRole(input.Role) = "user"

\* An extraction that reads string contents only.
extractStringContentOnly(input) ==
    IF input.Content.kind = "string" THEN input.Content.text ELSE <<>>

extractInputMessageText(input) ==
    IF input.Content.kind = "nil" THEN <<>>
    ELSE IF input.Content.kind = "string" THEN input.Content.text
    ELSE LET contentList == ParseContent(input.Content)
             textParts == SelectSeq(contentList,
                              LAMBDA c : IsTextPart(c) /\ TrimText(c.Text) # <<>>)
         IN  JoinTexts([i \in 1..Len(textParts) |-> textParts[i].Text], "\n")

prependSystemTextToInputMessage(input, text) ==
    LET systemText == TrimText(text)
        contentList == ParseContent(input.Content)
    IN  IF systemText = <<>> THEN input
        ELSE IF input.Content.kind = "string"
        THEN [input EXCEPT !.Content =
                 StringContent(IF TrimText(input.Content.text) = <<>> THEN systemText
                               ELSE systemText \o <<"\n\n">> \o input.Content.text)]
        ELSE IF contentList = <<>>
        THEN [input EXCEPT !.Content = StringContent(systemText)]
        ELSE IF IsTextPart(contentList[1])
        THEN [input EXCEPT !.Content = ListContent(
                 [contentList EXCEPT ![1].Text =
                     IF TrimText(contentList[1].Text) = <<>> THEN systemText
                     ELSE systemText \o <<"\n\n">> \o contentList[1].Text])]
        ELSE [input EXCEPT !.Content =
                 ListContent(<<Part("input_text", systemText)>> \o contentList)]

\* The loop of mergeSystemInputMessagesForCodex over the inputs left, and the
\* trailing user message it appends for system text still pending.
RECURSIVE mergeLoop(_, _, _)
mergeLoop(inputs, merged, pendingSystemText) ==
    IF inputs = <<>>
    THEN IF pendingSystemText # <<>>
         THEN Append(merged,
                     InputItem("message", "user",
                               ListContent(<<Part("input_text",
                                                  JoinTexts(pendingSystemText, "\n\n"))>>)))
         ELSE merged
    ELSE LET input == Head(inputs)
             systemText == TrimText(extractInputMessageText(input))
         IN  IF isSystemInputMessage(input)
             THEN mergeLoop(Tail(inputs), merged,
                            IF systemText # <<>> THEN Append(pendingSystemText, systemText)
                            ELSE pendingSystemText)
             ELSE IF pendingSystemText # <<>> /\ isMergeableInputMessage(input)
             THEN mergeLoop(Tail(inputs),
                            Append(merged,
                                   prependSystemTextToInputMessage(
                                       input, JoinTexts(pendingSystemText, "\n\n"))),
                            <<>>)
             ELSE mergeLoop(Tail(inputs), Append(merged, input), pendingSystemText)

\* mergeSystemInputMessagesForCodex: request.Input afterwards.
mergeSystemInputMessagesForCodex(input) ==
    IF input = <<>> THEN input ELSE mergeLoop(input, <<>>, <<>>)

\* Instructions: the text, its length in bytes, and which of the two client
\* signatures it begins with (0: neither).
Instr(text, len, sig) == [text |-> text, len |-> len, sig |-> sig]

NoInstructions == Instr("", 0, 0)

CodexCLIInstructions == Instr("(CodexCLIInstructions)", 0, 0)

Signatures ==
    << Instr("You are a coding agent running in the Codex CLI", 47, 1),
       Instr("You are Codex", 13, 2) >>

CallerInstructions ==
    { NoInstructions,
      Instr("You are Codex, a coding agent. Keep answers short.", 50, 2),
      Instr("You are Codex, based on GPT-5. You are running as a coding agent in the Codex CLI.",
            82, 2),
      Instr("You are a coding agent running in the Codex CLI, a terminal-based coding assistant.",
            83, 1),
      Instr("You are a helpful assistant.", 28, 0),
      Instr("Answer every question in one short paragraph and never use lists.", 65, 0) }

\* len(instructions) >= len(sig) && instructions[:len(sig)] == sig
BeginsWith(instructions, sig) == instructions.len >= sig.len /\ instructions.sig = sig.sig

\* A detection by the prefix alone.
isCodexCLIByPrefix(instructions) ==
    \E i \in 1..Len(Signatures) : BeginsWith(instructions, Signatures[i])

\* isCodexCLI of adaptCodexCLI
isCodexCLI(instructions) ==
    /\ instructions.text # ""
    /\ instructions.len > 50
    /\ \E i \in 1..Len(Signatures) : BeginsWith(instructions, Signatures[i])

\* "Remove incompatible fields" of adaptCodexCLI
StripSampling(request) ==
    [request EXCEPT !.Temperature = "nil", !.TopP = "nil", !.MaxOutputTokens = 0]

adaptCodexCLI(request) ==
    IF isCodexCLI(request.Instructions) THEN request
    ELSE [StripSampling(request) EXCEPT
             !.Input = mergeSystemInputMessagesForCodex(request.Input),
             !.Instructions = CodexCLIInstructions]

\* A preparation without the preference of temperature over top-p.
prepareWithoutPreference(request) == adaptCodexCLI(request)

\* What prepareCodexRequest and chatToResponsesRequest do to the sampling
\* fields, the instructions and the input of a request.
prepareCodexRequest(request) ==
    adaptCodexCLI(IF request.Temperature # "nil" /\ request.TopP # "nil"
                  THEN [request EXCEPT !.TopP = "nil"] ELSE request)

RequestInit ==
    \E dialect \in {"responses", "chat"}, instructions \in CallerInstructions,
       temperature \in {"nil", "0.2"}, topP \in {"nil", "0.9"}, maxTokens \in {0, 64},
       input \in ListsUpTo(MaxInput) :
        /\ (dialect = "chat" => instructions = NoInstructions)
        /\ qPc = "new"
        /\ qArrived = [dialect |-> dialect, Instructions |-> instructions,
                       Temperature |-> temperature, TopP |-> topP,
                       MaxOutputTokens |-> maxTokens, Input |-> input]
        /\ qReq = qArrived

\* CreateResponses / CreateResponsesStream: p.prepareCodexRequest(request)
PrepareCodexRequest ==
    /\ qPc = "new" /\ qArrived.dialect = "responses"
    /\ qReq' = prepareCodexRequest(qReq)
    /\ qPc' = "ready"
    /\ UNCHANGED qArrived
    /\ UNCHANGED <<strVars, relVars, tokVars, mrgVars, hdrVars, oauVars>>

\* CreateChatCompletion / CreateChatCompletionStream:
\* p.chatToResponsesRequest(request). request.ToResponsesRequest() carries
\* the sampling fields and the messages over.
ChatToResponsesRequest ==
    /\ qPc = "new" /\ qArrived.dialect = "chat"
    /\ qReq' = prepareCodexRequest(qReq)
    /\ qPc' = "ready"
    /\ UNCHANGED qArrived
    /\ UNCHANGED <<strVars, relVars, tokVars, mrgVars, hdrVars, oauVars>>

InitRequest == RequestInit /\ StreamOff /\ RelayOff /\ TokenOff /\ MergeOff /\ HeadersOff /\ OAuthOff

NextRequest == PrepareCodexRequest \/ ChatToResponsesRequest

SpecRequest == InitRequest /\ [][NextRequest]_vars

\* ------------------------------------------------------------------------
\* Claims on the request machine (SpecRequest)
\* ------------------------------------------------------------------------

\* All the text of a content, in order.
RECURSIVE PartsText(_)
PartsText(ps) == IF ps = <<>> THEN <<>> ELSE Head(ps).Text \o PartsText(Tail(ps))

ContentText(content) ==
    IF content.kind = "string" THEN content.text ELSE PartsText(content.parts)

\* t holds u as one run of pieces.
HoldsText(t, u) ==
    \E i \in 0..(Len(t) - Len(u)) : SubSeq(t, i + 1, i + Len(u)) = u

\* What stands in t before its ending u; t itself when t does not end in u.
Before(t, u) ==
    IF Len(u) <= Len(t) /\ SubSeq(t, Len(t) - Len(u) + 1, Len(t)) = u
    THEN SubSeq(t, 1, Len(t) - Len(u))
    ELSE t

EndsWith(t, u) == Len(u) <= Len(t) /\ SubSeq(t, Len(t) - Len(u) + 1, Len(t)) = u

NonSystem(input) == SelectSeq(input, LAMBDA x : ~isSystemInputMessage(x))

\* The request went through mergeSystemInputMessagesForCodex.
MergedSystemMessages == qPc = "ready" /\ ~isCodexCLI(qArrived.Instructions)

\* Where the text of the system message at position i of the arrived input
\* has to be: the place in the output of the next user message, or the one
\* place after all the arrived non-system items when no user message follows.
TargetOf(i) ==
    LET in == qArrived.Input
        later == {p \in (i + 1)..Len(in) : isMergeableInputMessage(in[p])}
    IN  IF later = {} THEN Len(NonSystem(in)) + 1
        ELSE LET p == CHOOSE x \in later : \A y \in later : x <= y
             IN  Len(NonSystem(SubSeq(in, 1, p)))

\* C27: mergeSystemInputMessagesForCodex loses no system text and keeps the
\* order of everything else. No system or developer message remains; the
\* non-system items are in the output in their order, each with its type,
\* role and own text, and unchanged unless it is a user message; every
\* non-empty system text stands in a user message, before the own text of the
\* next user message (a blank line after it when it shares a string with that
\* text), or in one user message appended at the end when none follows.
Thm_C27_MergeKeepsSystemTextAndOrder ==
    MergedSystemMessages =>
        LET in == qArrived.Input
            out == qReq.Input
            ns == NonSystem(in)
        IN  /\ \A j \in 1..Len(out) : ~isSystemInputMessage(out[j])
            /\ Len(out) \in {Len(ns), Len(ns) + 1}
            /\ \A k \in 1..Len(ns) :
                   /\ out[k].Type = ns[k].Type /\ out[k].Role = ns[k].Role
                   /\ EndsWith(ContentText(out[k].Content), ContentText(ns[k].Content))
                   /\ ~isMergeableInputMessage(ns[k]) => out[k] = ns[k]
            /\ \A i \in 1..Len(in) :
                   LET text == TrimText(ContentText(in[i].Content))
                       k == TargetOf(i)
                   IN  (isSystemInputMessage(in[i]) /\ text # <<>>)
                           => /\ k <= Len(out)
                              /\ isMergeableInputMessage(out[k])
                              /\ IF k > Len(ns)
                                 THEN HoldsText(ContentText(out[k].Content), text)
                                 ELSE LET own == ContentText(ns[k].Content)
                                          pre == Before(ContentText(out[k].Content), own)
                                      IN  /\ HoldsText(pre, text)
                                          /\ (ns[k].Content.kind = "string" /\ own # <<>>)
                                                 => EndsWith(pre, <<"\n\n">>)

\* [system "S1", user "U1", developer "S2"] became [user "S1\n\nU1",
\* user "S2"].
Wit_C27_MergedAndTrailing ==
    /\ MergedSystemMessages
    /\ Len(qArrived.Input) = 3
    /\ isSystemInputMessage(qArrived.Input[1]) /\ isSystemInputMessage(qArrived.Input[3])
    /\ Len(qReq.Input) = 2
    /\ qReq.Input[1] = InputItem("message", "user", StringContent(<<"S1", "\n\n", "U1">>))
    /\ qReq.Input[2] = InputItem("message", "user",
                                 ListContent(<<Part("input_text", <<"S2">>)>>))

\* C28 as claimed: adaptCodexCLI decides by the literal prefix alone. When
\* the caller's instructions begin with one of the two client signatures the
\* instructions and the sampling fields are left unchanged; otherwise
\* temperature, top-p and the maximum of output tokens are stripped and the
\* instructions are replaced by the fixed agent instructions.
Claim_C28_DecidesByPrefixOnly ==
    qPc = "ready"
        => IF isCodexCLIByPrefix(qArrived.Instructions)
           THEN /\ qReq.Instructions = qArrived.Instructions
                /\ qReq.MaxOutputTokens = qArrived.MaxOutputTokens
                /\ qReq.Temperature = qArrived.Temperature
                /\ qReq.TopP \in {qArrived.TopP, "nil"}
           ELSE /\ qReq.Instructions = CodexCLIInstructions
                /\ qReq.Temperature = "nil" /\ qReq.TopP = "nil"
                /\ qReq.MaxOutputTokens = 0

\* The same with the code's further condition, more than 50 bytes of
\* instructions, in the test.
DecidesByPrefixAndLength ==
    qPc = "ready"
        => IF isCodexCLI(qArrived.Instructions)
           THEN /\ qReq.Instructions = qArrived.Instructions
                /\ qReq.MaxOutputTokens = qArrived.MaxOutputTokens
                /\ qReq.Temperature = qArrived.Temperature
                /\ qReq.TopP \in {qArrived.TopP, "nil"}
                /\ qReq.Input = qArrived.Input
           ELSE /\ qReq.Instructions = CodexCLIInstructions
                /\ qReq.Temperature = "nil" /\ qReq.TopP = "nil"
                /\ qReq.MaxOutputTokens = 0

\* C29 as claimed: after normalization a request that arrived with both
\* temperature and top-p set still carries its temperature and carries no
\* top-p.
Claim_C29_TemperatureWinsOverTopP ==
    (qPc = "ready" /\ qArrived.Temperature # "nil" /\ qArrived.TopP # "nil")
        => (qReq.Temperature = qArrived.Temperature /\ qReq.TopP = "nil")

\* C29, amended: a request that arrived with both temperature and top-p set
\* carries no top-p after normalization; it still carries its temperature
\* when adaptCodexCLI takes it for a request of the Codex CLI, and carries no
\* temperature either when it does not.
Thm_C29_TopPDroppedTemperatureKeptForCLI ==
    (qPc = "ready" /\ qArrived.Temperature # "nil" /\ qArrived.TopP # "nil")
        => /\ qReq.TopP = "nil"
           /\ qReq.Temperature =
                  IF isCodexCLI(qArrived.Instructions) THEN qArrived.Temperature ELSE "nil"

\* A Codex CLI request with temperature 0.2 and top-p 0.9 was prepared.
Wit_C29_CLIRequestKeepsTemperature ==
    /\ qPc = "ready" /\ qArrived.Temperature = "0.2" /\ qArrived.TopP = "0.9"
    /\ isCodexCLI(qArrived.Instructions)
    /\ qReq.Temperature = "0.2" /\ qReq.TopP = "nil"
    /\ qReq.Instructions = qArrived.Instructions

\* ---------------------------------------------------------------------------
\* OAuth session machine: StartCodexOAuth and concurrent CodexOAuthCallback
\* calls (unnamed/part_003).  Each HTTP request is served on its own
\* goroutine; the state cache is shared by all of them.
\* ---------------------------------------------------------------------------

MaxSessions == 2

MaxCalls == 3

\* StartCodexOAuth draws 32 random bytes for each state: the n-th session has
\* id n.  0 is the empty session_id.
SessionIDs == 1..MaxSessions

OAuthCalls == 1..MaxCalls

GoodCode == "ac_0123456789"

CallbackWithCode == "http://localhost:1455/auth/callback?code=ac_0123456789&state=s"

CallbackWithoutCode == "http://localhost:1455/auth/callback?error=access_denied"

AuthorizationCodes == {"", "abc", GoodCode, CallbackWithCode}

CallbackURLs == {"", CallbackWithCode, CallbackWithoutCode}

ErrRequired == "session_id and authorization_code (or callback_url) are required"

ErrInvalidSession == "invalid or expired OAuth session"

ErrParse == "failed to parse authorization code"

ErrExchange == "failed to exchange code for token"

AuthorizationSuccessful == "Authorization successful"

\* strings.HasPrefix(trimmedInput, "http://") || ... "https://"
IsCallbackURL(input) == input \in {CallbackWithCode, CallbackWithoutCode}

\* parsedURL.Query().Get("code")
QueryCode(input) == IF input = CallbackWithCode THEN GoodCode ELSE ""

\* parseCodexCallbackURL: the code, or an error.
parseCodexCallbackURL(input) ==
    IF input = ""
    THEN [code |-> "", err |-> "empty input"]
    ELSE IF IsCallbackURL(input)
         THEN IF QueryCode(input) = ""
              THEN [code |-> "", err |-> "code parameter not found in callback URL"]
              ELSE [code |-> QueryCode(input), err |-> ""]
         ELSE IF Len(input) < 10
              THEN [code |-> "", err |-> "authorization code too short"]
              ELSE [code |-> input, err |-> ""]

NoRequest == [SessionID |-> 0, AuthorizationCode |-> "", CallbackURL |-> ""]

\* A call that has responded keeps only its session_id.
Answered(req) == [NoRequest EXCEPT !.SessionID = req.SessionID]

OAuthInit ==
    /\ oCache = {} /\ oStarted = 0
    /\ oPc = [k \in OAuthCalls |-> "idle"]
    /\ oReq = [k \in OAuthCalls |-> NoRequest]
    /\ oResp = [k \in OAuthCalls |-> ""]

\* StartCodexOAuth: store the state data under a fresh state.
StartCodexOAuth ==
    /\ oStarted < MaxSessions
    /\ oStarted' = oStarted + 1
    /\ oCache' = oCache \cup {oStarted + 1}
    /\ UNCHANGED <<oPc, oReq, oResp>>
    /\ UNCHANGED <<strVars, relVars, tokVars, mrgVars, hdrVars, reqVars>>

\* The stored state data outlives CodexOAuthStateCacheDuration.
StateExpires(s) ==
    /\ s \in oCache
    /\ oCache' = oCache \ {s}
    /\ UNCHANGED <<oStarted, oPc, oReq, oResp>>
    /\ UNCHANGED <<strVars, relVars, tokVars, mrgVars, hdrVars, reqVars>>

\* CodexOAuthCallback up to and including cache.GetCache.
CallbackLoad(k, req) ==
    /\ oPc[k] = "idle"
    /\ IF req.SessionID = 0 \/ (req.AuthorizationCode = "" /\ req.CallbackURL = "")
       THEN /\ oPc' = [oPc EXCEPT ![k] = "done"]
            /\ oResp' = [oResp EXCEPT ![k] = ErrRequired]
            /\ oReq' = [oReq EXCEPT ![k] = Answered(req)]
       ELSE IF req.SessionID \notin oCache
            THEN /\ oPc' = [oPc EXCEPT ![k] = "done"]
                 /\ oResp' = [oResp EXCEPT ![k] = ErrInvalidSession]
                 /\ oReq' = [oReq EXCEPT ![k] = Answered(req)]
            ELSE /\ oPc' = [oPc EXCEPT ![k] = "loaded"]
                 /\ oReq' = [oReq EXCEPT ![k] = req]
                 /\ UNCHANGED oResp
    /\ UNCHANGED <<oCache, oStarted>>
    /\ UNCHANGED <<strVars, relVars, tokVars, mrgVars, hdrVars, reqVars>>

\* cache.DeleteCache, then the parse of the code.
CallbackDelete(k) ==
    /\ oPc[k] = "loaded"
    /\ oCache' = oCache \ {oReq[k].SessionID}
    /\ LET inputValue == IF oReq[k].CallbackURL = "" THEN oReq[k].AuthorizationCode
                         ELSE oReq[k].CallbackURL
       IN  IF parseCodexCallbackURL(inputValue).err # ""
           THEN /\ oPc' = [oPc EXCEPT ![k] = "done"]
                /\ oResp' = [oResp EXCEPT ![k] = ErrParse]
           ELSE /\ oPc' = [oPc EXCEPT ![k] = "exchange"]
                /\ UNCHANGED oResp
    /\ oReq' = [oReq EXCEPT ![k] = Answered(oReq[k])]
    /\ UNCHANGED oStarted
    /\ UNCHANGED <<strVars, relVars, tokVars, mrgVars, hdrVars, reqVars>>

\* exchangeCodexCodeForToken returns, and the call responds.
CallbackExchange(k, ok) ==
    /\ oPc[k] = "exchange"
    /\ oPc' = [oPc EXCEPT ![k] = "done"]
    /\ oResp' = [oResp EXCEPT ![k] = IF ok THEN AuthorizationSuccessful ELSE ErrExchange]
    /\ UNCHANGED <<oCache, oStarted, oReq>>
    /\ UNCHANGED <<strVars, relVars, tokVars, mrgVars, hdrVars, reqVars>>

ExchangeRequests ==
    [SessionID : 0..MaxSessions, AuthorizationCode : AuthorizationCodes,
     CallbackURL : CallbackURLs]

InitOAuth ==
    OAuthInit /\ StreamOff /\ RelayOff /\ TokenOff /\ MergeOff /\ HeadersOff /\ RequestOff

NextOAuth ==
    \/ StartCodexOAuth
    \/ \E s \in SessionIDs : StateExpires(s)
    \/ \E k \in OAuthCalls, req \in ExchangeRequests : CallbackLoad(k, req)
    \/ \E k \in OAuthCalls : CallbackDelete(k)
    \/ \E k \in OAuthCalls, ok \in BOOLEAN : CallbackExchange(k, ok)

SpecOAuth == InitOAuth /\ [][NextOAuth]_vars

\* The call got its state data from the cache.
PastLookup(k) ==
    \/ oPc[k] \in {"loaded", "exchange"}
    \/ oResp[k] \in {ErrParse, ErrExchange, AuthorizationSuccessful}

\* The call reached exchangeCodexCodeForToken.
ReachedExchange(k) ==
    \/ oPc[k] = "exchange"
    \/ oResp[k] \in {ErrExchange, AuthorizationSuccessful}

ExchangesOf(s) == {k \in OAuthCalls : oReq[k].SessionID = s /\ ReachedExchange(k)}

\* Call k makes its lookup in this step, for session s.
LooksUp(k, s) ==
    /\ oPc[k] = "idle" /\ oPc'[k] # "idle"
    /\ oReq'[k].SessionID = s
    /\ oResp'[k] # ErrRequired

\* C40: a session state created by StartCodexOAuth is exchanged at most once:
\* for every interleaving of CodexOAuthCallback calls with the same
\* session_id at most one call reaches the code-for-token exchange, and a
\* call that looks the state up after another call has used it is rejected
\* as an invalid or expired session (GetCache and DeleteCache are two
\* steps: this does not hold).
Claim_C40_StateExchangedAtMostOnce ==
    [][/\ \A s \in SessionIDs : Cardinality(ExchangesOf(s))' <= 1
       /\ \A k \in OAuthCalls, s \in SessionIDs :
             (LooksUp(k, s) /\ \E j \in OAuthCalls \ {k} :
                                  oReq[j].SessionID = s /\ PastLookup(j))
                 => oResp'[k] = ErrInvalidSession]_vars

\* Once a call has deleted the state, or the state has expired, every later
\* call with its session_id is rejected as an invalid or expired session,
\* and the session's id is never stored again.
DeletedStateIsRejected ==
    [][/\ \A s \in SessionIDs : (s <= oStarted /\ s \notin oCache) => s \notin oCache'
       /\ \A k \in OAuthCalls, s \in SessionIDs :
             (LooksUp(k, s) /\ s \notin oCache) => oResp'[k] = ErrInvalidSession]_vars

\* A second call gets its state data only while every call that got it
\* before is still between its GetCache and its DeleteCache.
SecondLookupOnlyBeforeDelete ==
    [][\A k \in OAuthCalls, s \in SessionIDs :
          (LooksUp(k, s) /\ oPc'[k] = "loaded")
              => \A j \in OAuthCalls \ {k} :
                    (oReq[j].SessionID = s /\ PastLookup(j)) => oPc[j] = "loaded"]_vars

====
